---- MODULE Spec2Model ----
(***************************************************************************)
(* Crawl pipeline of the Digimon knowledge graph: the robots.txt policy    *)
(* (src/scraper/robots_checker.py) and the crawl orchestrator in its       *)
(* sequential and bounded-concurrent modes (src/scraper/fetcher.py).       *)
(* The stages around the crawl have specifications of their own: the       *)
(* paginated listing (src/scraper/api_fetcher.py), sanitize_filename       *)
(* (src/utils/file_utils.py) and parse_html_file (src/parser/html_parser). *)
(*                                                                         *)
(* Time is counted in whole seconds.  A URL is a sequence of characters    *)
(* (small naturals), so that "is a substring of" is computable.            *)
(***************************************************************************)
EXTENDS Integers, Sequences, FiniteSets, TLC

\* ------------------------------------------------------------------ bounds
\* longest URL list a discovery may return
MaxUrls == 3
\* largest value of scraping.concurrent_requests that is explored
MaxConcurrent == 2

\* most rows a listing page of the explored endpoints holds
MaxRows == 2

\* longest tail of arbitrary characters, after a run of plain letters, of the
\* names given to sanitize_filename
MaxTail == 3
\* max_length of sanitize_filename; 255 in the source, scaled down so that
\* names long enough to be truncated are explored
MaxLength == 18

\* most dl elements in the info block of an explored page
MaxDls == 2
\* longest special-moves value explored, in characters and tags
MaxMove == 5
\* files in the raw-HTML directory of a batch run, and runs over it
MaxFiles == 3
MaxRuns == 2
\* files in the input directory of the translation stage
MaxJson == 2
\* longest URL list of the runs that vary the configured delay or run twice
MaxShortList == 2

\* ------------------------------------------------------- program constants
\* sanitize_filename keeps max_length - 10 characters
TruncMargin == 10
\* the safety cap of fetch_all_digimon: `if batch_count > 100`
PageCap == 100
\* batch_size of scrape_all_async; 50 in the source, scaled down so that a
\* run of MaxUrls targets crosses a batch boundary
BatchSize == 2
\* stop_after_attempt(3) of the retry decorator of fetch_page
StopAfterAttempt == 3
\* wait_exponential(multiplier=1, min=4, max=10)
WaitMultiplier == 1
WaitMin == 4
WaitMax == 10
\* config.get("scraping.delay", 1.0)
ConfigDelay == 1
\* the conservative crawl delay of a policy that could not be loaded
DefaultCrawlDelay == 1
\* Python's None where a number is expected (Optional[float])
NoDelay == 0 - 1

\* the target URLs of the explored runs: the second contains the first
Urls == {<<1>>, <<1, 2>>, <<3>>}
\* the index page, https://digimon.net/reference/index.php
IndexUrl == <<0>>
\* the Disallow paths a robots.txt of the explored runs may hold for the agent
DisallowPaths == {<<1>>, <<0>>}
\* the Crawl-delay values it may hold (none, or 2 seconds)
CrawlDelays == {NoDelay, 2}

\* Python's None / a str, as the html-or-None value of a fetch
NoneHtml == [none |-> TRUE, text |-> <<>>]
EmptyHtml == [none |-> FALSE, text |-> <<>>]
\* the body the server sends for url on the given request
Body(url, attempt) == [none |-> FALSE, text |-> <<url, attempt>>]
\* truthiness of an html-or-None value: `if html:`
Truthy(html) == ~html.none /\ html.text # <<>>

Min2(a, b) == IF a < b THEN a ELSE b
Max2(a, b) == IF a > b THEN a ELSE b

RECURSIVE Pow2(_)
Pow2(n) == IF n <= 0 THEN 1 ELSE 2 * Pow2(n - 1)

\* str.startswith
IsPrefix(p, s) == Len(p) <= Len(s) /\ SubSeq(s, 1, Len(p)) = p

\* all sequences over S of length at most n
SeqsUpTo(S, n) == UNION {[1..k -> S] : k \in 0..n}

VARIABLES
    pc,                \* position of the process: constructor, run, return
    mode,              \* "sync" (scrape_all) or "async" (scrape_all_async)
    respect_robots,    \* scraping.respect_robots_txt
    concurrent_requests,
    delay,             \* DigimonScraper.delay
    robots_cache,      \* RobotsChecker._robots_cache
    robot_parser,      \* the RobotFileParser of the checker
    robots_read,       \* what reading robots.txt came to ("none": not read)
    cc_result,         \* the dictionary check_compliance returned
    urls,              \* the list get_digimon_urls returned
    discovery,         \* how get_digimon_urls came to that list
    scraped_urls,      \* DigimonScraper.scraped_urls
    failed_urls,       \* DigimonScraper.failed_urls, pairs <<url, reason>>
    summary,           \* the summary the run returned
    summary_file,      \* content of scrape_summary.json
    requested,         \* per target: an HTTP request was issued for it
    gave_up_after,     \* per target: requests made when its fetch was given up
    idx,               \* scrape_all: index of the current target
    attempt,           \* fetch_page: number of the next attempt
    outcomes,          \* fetch_page: outcome of each attempt of this call
    waits,             \* fetch_page: the waits slept between its attempts
    html,              \* scrape_all: what fetch_page returned
    slept,             \* per target: seconds slept as rate limit
    sem_value,         \* scrape_all_async: free permits of the semaphore
    task,              \* per target: position of its fetch_with_delay task
    result,            \* per target: the html-or-None its task resolved to
    batch_start,       \* index of the first target of the current batch
    results,           \* the (url, html) pairs gathered so far
    save_idx,          \* index into results of the saving loop
    disk,              \* the raw-HTML directory: per file name, the URL whose page it holds
    config_delay,      \* scraping.delay as configured
    earlier,           \* the summaries earlier runs on this object returned
    endpoint,          \* request.php: the response it gives for each offset
    api_pc,            \* position of fetch_all_digimon
    offset,            \* fetch_all_digimon: offset of the next request
    batch_count,       \* fetch_all_digimon: pages fetched so far
    all_digimon,       \* fetch_all_digimon: the rows accumulated so far
    api_requests,      \* the offsets requested from the endpoint, in order
    api_sleeps,        \* rate-limit sleeps of fetch_all_digimon
    all_file,          \* content of api_data/all_digimon.json
    manifest_file,     \* content of _all_digimon_urls.json
    fs_name,           \* sanitize_filename: the name it is first given
    fs_out,            \* sanitize_filename: its results, each applied to the last
    fs_file,           \* save_html: the file name it derived from a URL
    p_pc,              \* parse_html_file: "idle", "ready" (called) or "parsed"
    p_file,            \* parse_html_file: the file it is given
    p_data,            \* parse_html_file: what it returned
    b_pc,              \* position of parse_all_files and of the parser's main()
    b_dir,             \* the raw-HTML directory, as glob lists it
    b_unwritable,      \* the output files whose write is refused
    b_html_files,      \* parse_all_files: html_files
    b_i,               \* parse_all_files: index of the current file
    b_successful,      \* parse_all_files: successful
    b_failed,          \* parse_all_files: failed
    b_failed_files,    \* parse_all_files: failed_files, pairs <<file, reason>>
    b_attempted,       \* the files parse_html_file was called on in this run
    b_out,             \* the processed-data directory: record per file stem
    b_summary_file,    \* content of _parsing_summary.json
    b_history,         \* per finished run: what it returned and left on disk
    b_exit,            \* how the parser's main() ended
    t_pc,              \* position of process_all_digimon
    t_input,           \* the input directory, as glob lists it
    t_output,          \* the output directory: file per name
    t_before,          \* the output directory as the current run found it
    t_lru,             \* the memo of lru_cache around translate_text
    t_cache,           \* the translation cache of the CacheManager
    t_i,               \* process_all_digimon: index of the current file
    t_stats,           \* process_all_digimon: stats
    t_log,             \* the calls of translate_text made in this run
    t_clock,           \* time.time(), counted in writes
    t_summary_file,    \* content of _translation_summary.json
    t_history          \* per finished run: what it returned, found and left

cfgVars == <<mode, respect_robots, concurrent_requests, delay>>
robotVars == <<robots_cache, robot_parser, robots_read, cc_result>>
listVars == <<scraped_urls, failed_urls>>
outVars == <<summary, summary_file>>
seqVars == <<idx, attempt, outcomes, waits, html>>
asyncVars == <<sem_value, task, result, batch_start, results, save_idx>>
keptVars == <<config_delay, earlier>>
scraperVars == <<pc, cfgVars, robotVars, urls, discovery, listVars, outVars, requested, gave_up_after,
                 seqVars, slept, asyncVars, disk, keptVars>>
apiVars == <<endpoint, api_pc, offset, batch_count, all_digimon, api_requests, api_sleeps,
             all_file, manifest_file>>
\* the state of the stages other than the crawl
utilVars == <<fs_name, fs_out, fs_file>>
parserVars == <<p_pc, p_file, p_data>>
batchVars == <<b_pc, b_dir, b_unwritable, b_html_files, b_i, b_successful, b_failed,
               b_failed_files, b_attempted, b_out, b_summary_file, b_history, b_exit>>
transVars == <<t_pc, t_input, t_output, t_before, t_lru, t_cache, t_i, t_stats, t_log, t_clock,
               t_summary_file, t_history>>
extraVars == <<batchVars, transVars>>
stageVars == <<apiVars, utilVars, parserVars, extraVars>>
vars == <<scraperVars, stageVars>>

\* get_digimon_urls was not called
NoDiscovery == [source |-> "none", index |-> "not_fetched"]

\* no summary returned / no file written
NoSummary == [total |-> 0 - 1, success |-> 0, failed |-> 0, failed_urls |-> <<>>]

Summary(total, ok, bad) ==
    [total |-> total, success |-> Len(ok), failed |-> Len(bad), failed_urls |-> bad]

\* ------------------------------------------------------------ RobotsChecker

\* RobotFileParser() as constructed: nothing read yet
NewParser ==
    [disallow_all |-> FALSE, allow_all |-> FALSE, last_checked |-> FALSE,
     rules |-> {}, delay |-> NoDelay]

\* What RobotFileParser.read() can do (urllib.robotparser):
\*   "parsed"   the file was fetched and parsed (rules, optional crawl delay)
\*   "http_auth" HTTP 401/403: read() returns, disallow_all is set
\*   "http_4xx" another 4xx: read() returns, allow_all is set
\*   "http_5xx" another HTTP error: read() returns, nothing is set
\*   "raised"   URLError, timeout, undecodable body: read() raises
ReadOutcomes == {"parsed", "http_auth", "http_4xx", "http_5xx", "raised"}

ParserAfterRead(outcome, rules, crawl) ==
    CASE outcome = "parsed" ->
           [NewParser EXCEPT !.last_checked = TRUE, !.rules = rules, !.delay = crawl]
      [] outcome = "http_auth" -> [NewParser EXCEPT !.disallow_all = TRUE]
      [] outcome = "http_4xx" -> [NewParser EXCEPT !.allow_all = TRUE]
      [] OTHER -> NewParser

\* RobotFileParser.crawl_delay(useragent): None until a file was parsed
ParserCrawlDelay(p) == IF ~p.last_checked THEN NoDelay ELSE p.delay

\* RobotFileParser.can_fetch(useragent, url)
ParserCanFetch(p, url) ==
    IF p.disallow_all THEN FALSE
    ELSE IF p.allow_all THEN TRUE
    ELSE IF ~p.last_checked THEN FALSE
    ELSE \A path \in p.rules : ~IsPrefix(path, url)

\* the except branch of _load_robots_txt
LoadFailedCache == [loaded |-> FALSE, crawl_delay |-> DefaultCrawlDelay]

\* _load_robots_txt: the cache it leaves for an outcome of read()
load_robots_txt(outcome, p) ==
    IF outcome = "raised"
    THEN LoadFailedCache
    ELSE [loaded |-> TRUE, crawl_delay |-> ParserCrawlDelay(p)]

\* RobotsChecker.can_fetch
can_fetch(cache, p, url) ==
    IF ~cache.loaded THEN TRUE ELSE ParserCanFetch(p, url)

\* RobotsChecker.get_crawl_delay
get_crawl_delay(cache) == cache.crawl_delay

\* DigimonScraper.__init__: the delay after consulting the policy
InitDelay(respect, cache, configured) ==
    IF respect /\ get_crawl_delay(cache) # NoDelay /\ get_crawl_delay(cache) # 0
               /\ get_crawl_delay(cache) > configured
    THEN get_crawl_delay(cache)
    ELSE configured

\* no check_compliance call was made
NoCompliance ==
    [total_urls |-> 0, allowed |-> 0, disallowed |-> 0, crawl_delay |-> NoDelay,
     allowed_urls |-> <<>>, disallowed_urls |-> <<>>]

\* ----------------------------------------------------------------- fetch_page

\* tenacity wait_exponential: multiplier * 2^(attempt-1), clamped to [min, max]
wait_exponential(attempt_number) ==
    Max2(Max2(0, WaitMin), Min2(WaitMultiplier * Pow2(attempt_number - 1), WaitMax))

\* what one HTTP request can come to: an error (connection, status, timeout),
\* an empty document, or a document
FetchOutcomes == {"fail", "empty", "body"}

Response(outcome, url, n) ==
    CASE outcome = "body" -> Body(url, n)
      [] outcome = "empty" -> EmptyHtml
      [] OTHER -> NoneHtml

\* ------------------------------------------------------------- sanitize_filename

\* A name is a sequence of characters; the characters explored, one or two of
\* each class the function tells apart:
\*   "a" "b"  lowercase ASCII letters      "B"    an uppercase ASCII letter
\*   "_" "." "-" " "                       "/"    an illegal character
\*   "ctl"    a control character (chr(0)..chr(31))
\*   "e+"     a letter with a diacritic: NFKD gives "e" and a combining mark
\*   "ja"     a character without ASCII decomposition
\*   "fw/"    FULLWIDTH SOLIDUS: NFKD gives "/"
Chars == {"a", "B", "_", ".", "-", " ", "/", "ctl", "e+", "ja", "fw/"}
IllegalChars == {"<", ">", ":", "\"", "/", "\\", "|", "?", "*"}
ControlChars == {"ctl"}
AsciiLetters == {"a", "b", "B", "e", "u", "n", "m", "d"}
NonAscii == {"e+", "ja", "fw/", "comb"}

\* `for char in illegal_chars + control_chars: name = name.replace(char, '_')`
ReplaceIllegal(name) ==
    [k \in DOMAIN name |->
       IF name[k] \in IllegalChars \cup ControlChars THEN "_" ELSE name[k]]

\* unicodedata.normalize('NFKD', c) for one character
Decompose(c) ==
    CASE c = "e+" -> <<"e", "comb">>
      [] c = "fw/" -> <<"/">>
      [] OTHER -> <<c>>

RECURSIVE NormalizeNFKD(_)
NormalizeNFKD(name) ==
    IF name = <<>> THEN <<>> ELSE Decompose(Head(name)) \o NormalizeNFKD(Tail(name))

\* name.encode('ascii', 'ignore').decode('ascii')
AsciiIgnore(name) == LET IsAscii(c) == c \notin NonAscii IN SelectSeq(name, IsAscii)

\* re.sub(r'[^\w\-_.]', '_', name) on an ASCII string
ReplaceUnsafe(name) ==
    [k \in DOMAIN name |->
       IF name[k] \in AsciiLetters \cup {"-", "_", "."} THEN name[k] ELSE "_"]

\* re.sub(r'_{2,}', '_', name)
RECURSIVE CollapseUnderscores(_)
CollapseUnderscores(name) ==
    IF Len(name) < 2 THEN name
    ELSE IF name[1] = "_" /\ name[2] = "_" THEN CollapseUnderscores(Tail(name))
    ELSE <<Head(name)>> \o CollapseUnderscores(Tail(name))

\* str.lstrip(chars) / str.rstrip(chars) / str.strip(chars); a strip that
\* leaves the head of the string alone
RECURSIVE LStrip(_, _)
LStrip(name, chars) ==
    IF name # <<>> /\ Head(name) \in chars THEN LStrip(Tail(name), chars) ELSE name

RECURSIVE RStrip(_, _)
RStrip(name, chars) ==
    IF name # <<>> /\ name[Len(name)] \in chars
    THEN RStrip(SubSeq(name, 1, Len(name) - 1), chars) ELSE name

StripTrailing(name, chars) == RStrip(name, chars)

Strip(name, chars) == RStrip(LStrip(name, chars), chars)

\* 'unnamed'
Unnamed == <<"u", "n", "n", "a", "m", "e", "d">>

\* str.lower() of an ASCII string
Lower(name) == [k \in DOMAIN name |-> IF name[k] = "B" THEN "b" ELSE name[k]]

\* name[:max_length - 10] when len(name) > max_length - 10
Truncate(name, max_length) ==
    IF Len(name) > max_length - TruncMargin
    THEN SubSeq(name, 1, max_length - TruncMargin) ELSE name

sanitize_filename(name, max_length) ==
    LET replaced == ReplaceIllegal(name)
        ascii == AsciiIgnore(NormalizeNFKD(replaced))
        stripped == Strip(CollapseUnderscores(ReplaceUnsafe(ascii)), {"_", ".", "-", " "})
        named == IF stripped = <<>> THEN Unnamed ELSE stripped
    IN Lower(Truncate(named, max_length))

\* n times the character c
Rep(c, n) == [k \in 1..n |-> c]

\* the names explored: a run of letters up to the length kept, then any tail
Names ==
    {Rep("a", n) \o tail : n \in 0..(MaxLength - TruncMargin), tail \in SeqsUpTo(Chars, MaxTail)}

\* ------------------------------------------------------------------- save_html

\* A URL as save_html takes it apart with urlparse and parse_qs.  `kind` tells
\* what its query string holds: "param", one of the parameters directory_name,
\* name, id, digimon, and `text` is the value of the first of them; "query",
\* none of them, and `text` is the whole query string; "path", nothing, and
\* `text` is the path of the URL.
UrlKinds == {"param", "query", "path"}

\* parsed.path.strip('/').split('/')[-1]
LastPart(path) ==
    LET stripped == Strip(path, {"/"})
        slashes == {k \in DOMAIN stripped : stripped[k] = "/"}
        last == IF slashes = {} THEN 0 ELSE CHOOSE k \in slashes : \A j \in slashes : j <= k
    IN SubSeq(stripped, last + 1, Len(stripped))

\* '_'.join(parsed.path.strip('/').split('/'))
JoinParts(path) ==
    LET stripped == Strip(path, {"/"})
    IN [k \in DOMAIN stripped |-> IF stripped[k] = "/" THEN "_" ELSE stripped[k]]

\* digimon_id of save_html
digimon_id(url) ==
    CASE url.kind = "param" -> sanitize_filename(url.text, MaxLength)
      [] url.kind = "query" -> sanitize_filename(url.text, MaxLength)
      [] OTHER -> IF LastPart(url.text) # <<>>
                  THEN sanitize_filename(LastPart(url.text), MaxLength)
                  ELSE sanitize_filename(JoinParts(url.text), MaxLength)

\* the name of the file save_html writes: f"{digimon_id}.html"
save_html_file(url) == digimon_id(url) \o <<".html">>

\* save_html was not called
NotSaved == [saved |-> FALSE, kind |-> "path", name |-> <<>>]

\* sanitize_filename and save_html were not called
UtilIdle == fs_name = <<>> /\ fs_out = <<>> /\ fs_file = NotSaved

\* sanitize_filename(name), and then sanitize_filename of its own result
Sanitize ==
    /\ Len(fs_out) < 2
    /\ fs_out' = Append(fs_out, sanitize_filename(IF fs_out = <<>> THEN fs_name
                                                  ELSE fs_out[Len(fs_out)], MaxLength))
    /\ UNCHANGED <<scraperVars, extraVars, apiVars, parserVars, fs_name, fs_file>>

\* save_html(url, html) for a URL of any kind whose text is the name: the file
\* name it derives.  parse_qs keeps no blank value and `if parsed.query` no
\* empty query string
SaveHtml ==
    /\ ~fs_file.saved
    /\ \E kind \in UrlKinds :
         /\ kind # "path" => fs_name # <<>>
         /\ fs_file' = [saved |-> TRUE, kind |-> kind,
                        name |-> save_html_file([kind |-> kind, text |-> fs_name])]
    /\ UNCHANGED <<scraperVars, extraVars, apiVars, parserVars, fs_name, fs_out>>

\* --------------------------------------------------------------- DigimonParser

\* A text is a sequence of characters; "nl" is a line break, "bullet" the
\* marker U+30FB, "<br>" a line-break tag as written in the page and "<br/>"
\* as BeautifulSoup writes it back; a word in capitals stands for a Japanese
\* field name
Whitespace == {" ", "nl"}
Tags == {"<br>", "<br/>"}

\* an optional value: a dict key that may be missing, an element that may not
\* be in the page, Python's None
Absent == [present |-> FALSE, text |-> <<>>]
Some(t) == [present |-> TRUE, text |-> t]

\* element.text: the characters without the tags
TextOf(tokens) == LET IsText(c) == c \notin Tags IN SelectSeq(tokens, IsText)

\* str(dd): the element written back, every line-break tag as <br/>
Serialize(tokens) == [k \in DOMAIN tokens |-> IF tokens[k] \in Tags THEN "<br/>" ELSE tokens[k]]

\* moves_html.replace('<br/>', '\n').replace('<br>', '\n')
ReplaceBreaks(tokens) == [k \in DOMAIN tokens |-> IF tokens[k] \in Tags THEN "nl" ELSE tokens[k]]

\* str.split(sep) for a one-character separator
RECURSIVE SplitOn(_, _, _)
SplitOn(text, sep, current) ==
    IF text = <<>> THEN <<current>>
    ELSE IF Head(text) = sep THEN <<current>> \o SplitOn(Tail(text), sep, <<>>)
    ELSE SplitOn(Tail(text), sep, Append(current, Head(text)))

\* the body of `for move in moves`: strip, one leading bullet off, strip
CleanMove(move) ==
    LET m == Strip(move, Whitespace)
    IN IF m # <<>> /\ Head(m) = "bullet" THEN Strip(Tail(m), Whitespace) ELSE m

\* the special-moves list of a dd element
special_moves(dd) ==
    LET moves_text == ReplaceBreaks(Serialize(dd))
        moves == SplitOn(Strip(TextOf(moves_text), Whitespace), "nl", <<>>)
        cleaned == [k \in DOMAIN moves |-> CleanMove(moves[k])]
        NonEmpty(m) == m # <<>>
    IN SelectSeq(cleaned, NonEmpty)

\* self.field_mappings.get(field_name, field_name)
FieldMappings(field_name) ==
    CASE field_name = <<"LEVEL_JP">> -> <<"level">>
      [] field_name = <<"TYPE_JP">> -> <<"type">>
      [] field_name = <<"ATTRIBUTE_JP">> -> <<"attribute">>
      [] field_name = <<"MOVES_JP">> -> <<"special_moves">>
      [] field_name = <<"PROFILE_JP">> -> <<"profile">>
      [] OTHER -> field_name

\* d[k] = v on a dict
DictSet(d, k, v) == [x \in DOMAIN d \cup {k} |-> IF x = k THEN v ELSE d[x]]

\* `for dl in info_section`: the info dict and the moves list after the loop
RECURSIVE InfoLoop(_, _, _)
InfoLoop(dls, info, moves) ==
    IF dls = <<>> THEN [info |-> info, special_moves |-> moves]
    ELSE LET dl == Head(dls)
             field_name == Strip(TextOf(dl.dt.text), Whitespace)
             field_value == Strip(TextOf(dl.dd.text), Whitespace)
             english_key == FieldMappings(field_name)
         IN IF ~(dl.dt.present /\ dl.dd.present)
            THEN InfoLoop(Tail(dls), info, moves)
            ELSE IF field_name = <<"MOVES_JP">>
            THEN InfoLoop(Tail(dls), info, special_moves(dl.dd.text))
            ELSE InfoLoop(Tail(dls),
                          DictSet(DictSet(info, english_key, field_value),
                                  english_key \o <<"_jp">>, field_name),
                          moves)

\* `for item in related_section`
RECURSIVE RelatedLoop(_)
RelatedLoop(items) ==
    IF items = <<>> THEN <<>>
    ELSE LET item == Head(items)
         IN (IF item.link # "absent" /\ item.name.present
             THEN <<[name |-> Strip(item.name.text, Whitespace),
                     directory_name |-> IF item.link = "dir" THEN Some(<<"d">>) ELSE Absent,
                     type_info |-> IF item.type.present
                                   THEN Some(Strip(item.type.text, Whitespace)) ELSE Absent]>>
             ELSE <<>>)
            \o RelatedLoop(Tail(items))

\* a file name is its dot-separated parts; Path.stem drops the last suffix
StemWhole(file_name) == file_name

StemOf(file_name) == SubSeq(file_name, 1, Len(file_name) - 1)

\* the failure value of parse_html_file, and the record it returns
NoneData ==
    [none |-> TRUE, directory_name |-> <<>>, source_file |-> <<>>, names_japanese |-> Absent,
     names_english |-> Absent, info |-> <<>>, profile_japanese |-> Absent,
     special_moves |-> <<>>, related_digimon |-> <<>>, images_main |-> Absent,
     parsed_at |-> 0]

parse_html_file(file) ==
    IF ~file.readable THEN NoneData
    ELSE LET page == file.page
             fields == InfoLoop(page.info, <<>>, <<>>)
             OptText(elem) == IF elem.present THEN Some(Strip(TextOf(elem.text), Whitespace))
                              ELSE Absent
         IN [none |-> FALSE,
             directory_name |-> StemOf(file.name),
             source_file |-> file.name,
             names_japanese |-> OptText(page.name_jp),
             names_english |-> OptText(page.name_en),
             images_main |-> IF page.img = "src" THEN Some(<<"src">>) ELSE Absent,
             info |-> fields.info,
             special_moves |-> fields.special_moves,
             profile_japanese |-> OptText(page.profile),
             related_digimon |-> RelatedLoop(page.related),
             parsed_at |-> file.mtime]

\* the pages explored: every markup region present or absent
EmptyPage ==
    [name_jp |-> Absent, name_en |-> Absent, img |-> "absent", info |-> <<>>,
     profile |-> Absent, related |-> <<>>]

\* the dl elements of an info block: a mapped field, an unmapped field, a dl
\* whose dt lacks the class, a dl without dd, and the special moves
MovesDl(value) == [dt |-> Some(<<"MOVES_JP">>), dd |-> Some(value)]
InfoDls ==
    {[dt |-> Some(<<" ", "LEVEL_JP">>), dd |-> Some(<<"x", " ">>)],
     [dt |-> Some(<<"GENERATION_JP">>), dd |-> Some(<<"x", "<br>", "x">>)],
     [dt |-> Absent, dd |-> Some(<<"x">>)],
     [dt |-> Some(<<"LEVEL_JP">>), dd |-> Absent],
     MovesDl(<<"bullet", "x", "<br>", "bullet", "x", " ", "x", "<br>">>)}

RelatedItems ==
    [link : {"absent", "plain", "dir"}, name : {Absent, Some(<<" ", "R">>)},
     type : {Absent, Some(<<"T">>)}]

RegionPages ==
    [name_jp : {Absent, Some(<<" ", "N", "nl">>)},
     name_en : {Absent, Some(<<"E">>)},
     img : {"absent", "no_src", "src"},
     info : SeqsUpTo(InfoDls, MaxDls),
     profile : {Absent, Some(<<"nl", "P", " ", "P", "nl">>)},
     related : SeqsUpTo(RelatedItems, 1)]

\* the pages whose info block is one special-moves dl, over every value
MoveTokens == {"bullet", "x", " ", "<br>", "nl"}
MovesPages ==
    {[EmptyPage EXCEPT !.info = <<MovesDl(value)>>] : value \in SeqsUpTo(MoveTokens, MaxMove)}

\* the files explored; a file that cannot be read or decoded has no page
FileNames == {<<"agumon", "html">>, <<"agumon", "x", "html">>}
Files ==
    [name : FileNames, readable : {TRUE}, mtime : {1}, page : RegionPages \cup MovesPages]
    \cup [name : FileNames, readable : {FALSE}, mtime : {1}, page : {EmptyPage}]

\* parse_html_file was not called
ParserIdle ==
    /\ p_pc = "idle"
    /\ p_file = [name |-> <<"html">>, readable |-> FALSE, mtime |-> 0, page |-> EmptyPage]
    /\ p_data = NoneData

\* parse_html_file(file_path)
Parse ==
    /\ p_pc = "ready"
    /\ p_data' = parse_html_file(p_file)
    /\ p_pc' = "parsed"
    /\ UNCHANGED <<scraperVars, extraVars, apiVars, utilVars, p_file>>

\* ------------------------------------------------ DigimonParser.parse_all_files

\* the files the raw-HTML directory can hold; a name is its dot-separated parts
BatchNames ==
    {<<"agumon", "html">>, <<"agumon", "x", "html">>, <<"gabumon", "html">>, <<"_index", "html">>}

\* f.name.startswith("_"), over the names explored
StartsWithUnderscore(file_name) == Head(file_name) \in {"_index"}

BatchPages == {EmptyPage, [EmptyPage EXCEPT !.name_jp = Some(<<" ", "N", "nl">>)]}
BatchFiles ==
    [name : BatchNames, readable : {TRUE}, mtime : {1}, page : BatchPages]
    \cup [name : BatchNames, readable : {FALSE}, mtime : {1}, page : {EmptyPage}]

\* a directory lists files of distinct names, in the order glob yields them
Directories ==
    {d \in SeqsUpTo(BatchFiles, MaxFiles) :
        \A i, j \in 1..Len(d) : d[i].name = d[j].name => i = j}

\* the output files that open(output_file, 'w') can be refused for
OutputNames == {StemOf(n) : n \in BatchNames}

\* str(e) of a refused write, and the reason given for a None record
WriteError == "OSError"
ReturnedNone == "Parsing returned None"

\* the summary returned when no file is eligible, and the one built after the loop
EmptySummary == [total |-> 0, success |-> 0, failed |-> 0]
ParsingSummary(total, ok, bad, bad_files) ==
    [total |-> total, successful |-> ok, failed |-> bad, failed_files |-> bad_files,
     output_directory |-> "processed_data"]

NoSummaryFile == [exists |-> FALSE]

\* the counters of a run start from zero
CarriedCount(previous) == previous

FreshCount(previous) == 0

\* html_files: glob("*.html") without the names that start with "_"
EligibleFiles(dir) == SelectSeq(dir, LAMBDA f : ~StartsWithUnderscore(f.name))

\* parse_all_files was not called
BatchIdle ==
    /\ b_pc = "idle"
    /\ b_dir = <<>>
    /\ b_unwritable = {}
    /\ b_html_files = <<>>
    /\ b_i = 1
    /\ b_successful = 0
    /\ b_failed = 0
    /\ b_failed_files = <<>>
    /\ b_attempted = <<>>
    /\ b_out = <<>>
    /\ b_summary_file = NoSummaryFile
    /\ b_history = <<>>
    /\ b_exit = "none"

\* parse_all_files up to its loop: the listing, the early return, the counters
ParseAllStart ==
    /\ b_pc = "ready"
    /\ LET html_files == EligibleFiles(b_dir)
       IN /\ b_html_files' = html_files
          /\ IF html_files = <<>>
             THEN /\ b_history' = Append(b_history, [summary |-> EmptySummary, records |-> b_out,
                                                     summary_file |-> b_summary_file])
                  /\ b_pc' = "returned"
             ELSE /\ b_pc' = "loop"
                  /\ UNCHANGED b_history
    /\ b_i' = 1
    /\ b_successful' = FreshCount(b_successful)
    /\ b_failed' = FreshCount(b_failed)
    /\ b_failed_files' = <<>>
    /\ b_attempted' = <<>>
    /\ UNCHANGED <<scraperVars, apiVars, utilVars, parserVars, b_dir, b_unwritable, b_out,
                   b_summary_file, b_exit, transVars>>

\* one iteration of the loop: parse_html_file, then the record is written
ParseAllStep ==
    /\ b_pc = "loop"
    /\ b_i <= Len(b_html_files)
    /\ LET html_file == b_html_files[b_i]
           data == parse_html_file(html_file)
       IN /\ b_attempted' = Append(b_attempted, html_file.name)
          /\ IF ~data.none
             THEN IF data.directory_name \in b_unwritable
                  THEN /\ b_failed' = b_failed + 1
                       /\ b_failed_files' = Append(b_failed_files, <<html_file.name, WriteError>>)
                       /\ UNCHANGED <<b_successful, b_out>>
                  ELSE /\ b_out' = DictSet(b_out, data.directory_name, data)
                       /\ b_successful' = b_successful + 1
                       /\ UNCHANGED <<b_failed, b_failed_files>>
             ELSE /\ b_failed' = b_failed + 1
                  /\ b_failed_files' = Append(b_failed_files, <<html_file.name, ReturnedNone>>)
                  /\ UNCHANGED <<b_successful, b_out>>
    /\ b_i' = b_i + 1
    /\ UNCHANGED <<scraperVars, apiVars, utilVars, parserVars, b_pc, b_dir, b_unwritable,
                   b_html_files, b_summary_file, b_history, b_exit, transVars>>

\* after the loop: the summary is built, written and returned
ParseAllSummary ==
    /\ b_pc = "loop"
    /\ b_i > Len(b_html_files)
    /\ LET s == ParsingSummary(Len(b_html_files), b_successful, b_failed, b_failed_files)
       IN /\ b_summary_file' = [exists |-> TRUE, content |-> s]
          /\ b_history' = Append(b_history, [summary |-> s, records |-> b_out,
                                             summary_file |-> b_summary_file'])
    /\ b_pc' = "returned"
    /\ UNCHANGED <<scraperVars, apiVars, utilVars, parserVars, b_dir, b_unwritable, b_html_files,
                   b_i, b_successful, b_failed, b_failed_files, b_attempted, b_out, b_exit, transVars>>

\* parse_all_files is called again on the same directories
ParseAllAgain ==
    /\ b_pc = "returned"
    /\ Len(b_history) < MaxRuns
    /\ b_pc' = "ready"
    /\ UNCHANGED <<scraperVars, apiVars, utilVars, parserVars, b_dir, b_unwritable, b_html_files,
                   b_i, b_successful, b_failed, b_failed_files, b_attempted, b_out,
                   b_summary_file, b_history, b_exit, transVars>>

\* main() of the parser: what it does with the summary parse_all_files returned
ParserExit(s) ==
    IF "successful" \notin DOMAIN s THEN "exit_1_exception"
    ELSE IF s.successful = 0 THEN "exit_1" ELSE "exit_0"

ParserMain ==
    /\ b_pc = "returned"
    /\ b_exit' = ParserExit(b_history[Len(b_history)].summary)
    /\ b_pc' = "exited"
    /\ UNCHANGED <<scraperVars, apiVars, utilVars, parserVars, b_dir, b_unwritable, b_html_files,
                   b_i, b_successful, b_failed, b_failed_files, b_attempted, b_out,
                   b_summary_file, b_history, transVars>>

\* ----------------------------------------------------------- DigimonTranslator

\* A text to translate is a sequence of tokens: "J" and "K" are Japanese texts
\* only the translation service can translate, "ROOKIE_JP" a key of
\* static_translations, "TYPE_JP" and "SPECIES_JP" the type suffixes
ApiTexts == {<<"J">>, <<"K">>}

InStatic(text) == text \in {<<"ROOKIE_JP">>, <<"TYPE_JP">>, <<"SPECIES_JP">>}

StaticTranslations(text) ==
    CASE text = <<"ROOKIE_JP">> -> <<"Rookie">>
      [] text = <<"TYPE_JP">> -> <<" Type">>
      [] text = <<"SPECIES_JP">> -> <<" Species">>

\* result.text of translator.translate(text, src='ja', dest='en')
English(text) == <<"en">> \o text

\* `not text or not text.strip()`
BlankText(text) == Strip(text, Whitespace) = <<>>

\* translate_text behind lru_cache, from the state st = [lru, cache, log] of
\* the memo of lru_cache, the translation cache and the calls made; `fails` are
\* the texts for which translator.translate raises while this record is
\* translated (none, or all of them while the service is down).  The result
\* is the state afterwards with the returned value.
translate_text(st, text, fails, file_name) ==
    IF text \in DOMAIN st.lru
    THEN [value |-> st.lru[text], lru |-> st.lru, cache |-> st.cache,
          log |-> Append(st.log, [file |-> file_name, text |-> text, how |-> "lru",
                                  value |-> st.lru[text]])]
    ELSE LET out == IF BlankText(text) THEN [how |-> "blank", value |-> text]
                    ELSE IF InStatic(text)
                    THEN [how |-> "static", value |-> StaticTranslations(text)]
                    ELSE IF text \in DOMAIN st.cache /\ st.cache[text] # <<>>
                    THEN [how |-> "cache", value |-> st.cache[text]]
                    ELSE IF text \in fails THEN [how |-> "api_fail", value |-> text]
                    ELSE [how |-> "api_ok", value |-> English(text)]
         IN [value |-> out.value,
             lru |-> DictSet(st.lru, text, out.value),
             cache |-> IF out.how = "api_ok" THEN DictSet(st.cache, text, out.value)
                       ELSE st.cache,
             log |-> Append(st.log, [file |-> file_name, text |-> text, how |-> out.how,
                                     value |-> out.value])]

\* translate_type: the suffixes are taken off, the base translated, a suffix added
translate_type(st, type_text, fails, file_name) ==
    IF type_text = <<>> THEN [st EXCEPT !.value = type_text]
    ELSE LET base_type == SelectSeq(type_text, LAMBDA c : c \notin {"TYPE_JP", "SPECIES_JP"})
             s == translate_text(st, base_type, fails, file_name)
             has(c) == \E k \in DOMAIN type_text : type_text[k] = c
         IN [s EXCEPT !.value = IF has("TYPE_JP") THEN s.value \o <<" Type">>
                                 ELSE IF has("SPECIES_JP") THEN s.value \o <<" Species">>
                                 ELSE s.value]

\* the list comprehension over special_moves
RECURSIVE TranslateMoves(_, _, _, _)
TranslateMoves(st, moves, fails, file_name) ==
    IF moves = <<>> THEN [st EXCEPT !.value = <<>>]
    ELSE LET s == translate_text(st, Head(moves), fails, file_name)
             rest == TranslateMoves(s, Tail(moves), fails, file_name)
         IN [rest EXCEPT !.value = <<s.value>> \o rest.value]

\* translate_digimon_data: the fields in the order they are translated
translate_digimon_data(st, data, fails, file_name) ==
    LET start == [value |-> <<>>, lru |-> st.lru, cache |-> st.cache, log |-> st.log]
        s1 == IF data.level.present THEN translate_text(start, data.level.text, fails, file_name)
              ELSE start
        s2 == IF data.type.present THEN translate_type(s1, data.type.text, fails, file_name)
              ELSE s1
        s3 == IF data.attribute.present
              THEN translate_text(s2, data.attribute.text, fails, file_name) ELSE s2
        s4 == IF data.profile.present THEN translate_text(s3, data.profile.text, fails, file_name)
              ELSE s3
        s5 == TranslateMoves(s4, data.special_moves, fails, file_name)
    IN [state |-> s5,
        translated |->
            [level |-> data.level, type |-> data.type, attribute |-> data.attribute,
             profile |-> data.profile, special_moves |-> data.special_moves,
             level_en |-> IF data.level.present THEN Some(s1.value) ELSE Absent,
             type_en |-> IF data.type.present THEN Some(s2.value) ELSE Absent,
             attribute_en |-> IF data.attribute.present THEN Some(s3.value) ELSE Absent,
             profile_english |-> IF data.profile.present THEN Some(s4.value) ELSE Absent,
             special_moves_en |-> s5.value]]

\* the records of the input directory
Records ==
    [level : {Absent, Some(<<"ROOKIE_JP">>)},
     type : {Some(<<"J", "TYPE_JP">>)},
     attribute : {Some(<<" ">>)},
     profile : {Absent, Some(<<"K">>)},
     special_moves : {<<(<<"K">>)>>}]

NoRecord ==
    [level |-> Absent, type |-> Absent, attribute |-> Absent, profile |-> Absent,
     special_moves |-> <<>>]

JsonNames == {"agumon.json", "gabumon.json", "_parsing_summary.json"}

\* json_file.name.startswith("_"), over the names explored
JsonStartsWithUnderscore(name) == name \in {"_parsing_summary.json"}

\* the files of the input directory: a record file holds a record or cannot
\* be loaded (json.load raises); the summary of the parser holds no record
JsonFiles ==
    [name : {n \in JsonNames : ~JsonStartsWithUnderscore(n)}, loadable : {TRUE}, data : Records]
    \cup [name : JsonNames, loadable : {FALSE}, data : {NoRecord}]

InputDirectories ==
    {d \in SeqsUpTo(JsonFiles, MaxJson) :
        \A i, j \in 1..Len(d) : d[i].name = d[j].name => i = j}

\* a file of the output directory
NoOutput ==
    [exists |-> FALSE, loadable |-> FALSE, translation_complete |-> FALSE, translated_at |-> 0,
     data |-> NoRecord]

CorruptOutput == [NoOutput EXCEPT !.exists = TRUE]

UntranslatedOutput == [NoOutput EXCEPT !.exists = TRUE, !.loadable = TRUE]

OutputOf(out, name) == IF name \in DOMAIN out THEN out[name] ELSE NoOutput

\* the output directories a first run can find: empty, or holding for the
\* first record a file that cannot be loaded or one without the completion flag
OutputDirectories ==
    {<<>>} \cup {[n \in {"agumon.json"} |-> o] : o \in {CorruptOutput, UntranslatedOutput}}

NewStats(total) == [total |-> total, successful |-> 0, failed |-> 0, skipped |-> 0]

\* json_files: glob("*.json") without the names that start with "_"
EligibleJson(dir) == SelectSeq(dir, LAMBDA f : ~JsonStartsWithUnderscore(f.name))

\* existing.get('translation_complete') of an output file that was loaded
NeverTranslated(existing) == FALSE

AlreadyTranslated(existing) == existing.translation_complete

\* process_all_digimon was not called
TransIdle ==
    /\ t_pc = "idle"
    /\ t_input = <<>>
    /\ t_output = <<>>
    /\ t_before = <<>>
    /\ t_lru = <<>>
    /\ t_cache = <<>>
    /\ t_i = 1
    /\ t_stats = NewStats(0)
    /\ t_log = <<>>
    /\ t_clock = 0
    /\ t_summary_file = NoSummaryFile
    /\ t_history = <<>>

\* process_all_digimon up to its loop
TranslateStart ==
    /\ t_pc = "ready"
    /\ t_stats' = NewStats(Len(EligibleJson(t_input)))
    /\ t_i' = 1
    /\ t_log' = <<>>
    /\ t_before' = t_output
    /\ t_pc' = "loop"
    /\ UNCHANGED <<scraperVars, apiVars, utilVars, parserVars, batchVars, t_input, t_output, t_lru,
                   t_cache, t_clock, t_summary_file, t_history>>

\* the body of the loop for one file
TranslateStep ==
    /\ t_pc = "loop"
    /\ t_i <= Len(EligibleJson(t_input))
    /\ LET json_file == EligibleJson(t_input)[t_i]
           existing == OutputOf(t_output, json_file.name)
           Fail == /\ t_stats' = [t_stats EXCEPT !.failed = @ + 1]
                   /\ UNCHANGED <<t_output, t_clock>>
       IN IF existing.exists /\ ~existing.loadable
          THEN Fail /\ UNCHANGED <<t_lru, t_cache, t_log>>
          ELSE IF existing.exists /\ AlreadyTranslated(existing)
          THEN /\ t_stats' = [t_stats EXCEPT !.skipped = @ + 1]
               /\ UNCHANGED <<t_output, t_clock, t_lru, t_cache, t_log>>
          ELSE IF ~json_file.loadable
          THEN Fail /\ UNCHANGED <<t_lru, t_cache, t_log>>
          ELSE \E fails \in {{}, ApiTexts}, write_ok \in BOOLEAN :
                  LET r == translate_digimon_data([lru |-> t_lru, cache |-> t_cache,
                                                   log |-> t_log],
                                                  json_file.data, fails, json_file.name)
                  IN /\ t_lru' = r.state.lru
                     /\ t_cache' = r.state.cache
                     /\ t_log' = r.state.log
                     /\ IF write_ok
                        THEN /\ t_clock' = t_clock + 1
                             /\ t_output' =
                                  DictSet(t_output, json_file.name,
                                          [exists |-> TRUE, loadable |-> TRUE,
                                           translation_complete |-> TRUE,
                                           translated_at |-> t_clock', data |-> r.translated])
                             /\ t_stats' = [t_stats EXCEPT !.successful = @ + 1]
                        ELSE Fail
    /\ t_i' = t_i + 1
    /\ UNCHANGED <<scraperVars, apiVars, utilVars, parserVars, batchVars, t_pc, t_input, t_before,
                   t_summary_file, t_history>>

\* after the loop: _translation_summary.json is written and stats returned
TranslateSummary ==
    /\ t_pc = "loop"
    /\ t_i > Len(EligibleJson(t_input))
    /\ t_summary_file' = [exists |-> TRUE, content |-> t_stats]
    /\ t_history' = Append(t_history, [stats |-> t_stats, before |-> t_before,
                                       after |-> t_output, log |-> t_log])
    /\ t_pc' = "returned"
    /\ UNCHANGED <<scraperVars, apiVars, utilVars, parserVars, batchVars, t_input, t_output, t_before,
                   t_lru, t_cache, t_i, t_stats, t_log, t_clock>>

\* process_all_digimon is called again on the same directories, by the same
\* translator object or by a new process, whose lru_cache is empty
TranslateAgain ==
    /\ t_pc = "returned"
    /\ Len(t_history) < MaxRuns
    /\ \E same_process \in BOOLEAN : t_lru' = IF same_process THEN t_lru ELSE <<>>
    /\ t_pc' = "ready"
    /\ UNCHANGED <<scraperVars, apiVars, utilVars, parserVars, batchVars, t_input, t_output, t_before,
                   t_cache, t_i, t_stats, t_log, t_clock, t_summary_file, t_history>>

ExtraIdle == BatchIdle /\ TransIdle

\* ------------------------------------------------------------ DigimonAPIFetcher

\* `next` of a page that is not a number (JSON null): int() raises on it
BadNext == 0 - 2
\* the -1 sentinel: no further page
NoNext == 0 - 1
\* the offsets the explored endpoints know
Offsets == {0, 5}
\* an entry is its directory_name; NoName: the entry has none (or an empty one)
NoName == 0
DirectoryNames == {1, 2}
Entries == {NoName} \cup DirectoryNames

\* what fetch_batch can return: None after any error, a JSON list, or the
\* object {"rows": [...], "next": ...}
FailedBatch == [kind |-> "fail", rows |-> <<>>, next |-> NoNext]
ListBatch == [kind |-> "list", rows |-> <<>>, next |-> NoNext]
Batches ==
    {FailedBatch, ListBatch} \cup
    [kind : {"dict"}, rows : SeqsUpTo(Entries, MaxRows), next : Offsets \cup {NoNext, BadNext}]

\* the endpoints explored: one response per offset
Endpoints == [Offsets -> Batches]

\* detail_url_template.format(directory_name)
DetailUrl(directory_name) == <<7, directory_name>>

\* generate_detail_urls: one URL per entry that has a directory_name, in order
generate_detail_urls(digimon_list) ==
    LET HasName(digimon) == digimon # NoName
        named == SelectSeq(digimon_list, HasName)
    IN [k \in 1..Len(named) |-> DetailUrl(named[k])]

\* no file written
NoFile == [exists |-> FALSE, total |-> 0, digimon |-> <<>>, batches |-> 0]
NoManifest == [exists |-> FALSE, total_urls |-> 0, urls |-> <<>>]

\* fetch_all_digimon was not called
ApiIdle ==
    /\ endpoint = [o \in Offsets |-> FailedBatch]
    /\ api_pc = "idle"
    /\ offset = 0
    /\ batch_count = 0
    /\ all_digimon = <<>>
    /\ api_requests = <<>>
    /\ api_sleeps = 0
    /\ all_file = NoFile
    /\ manifest_file = NoManifest

StagesIdle == ApiIdle /\ UtilIdle /\ ParserIdle /\ ExtraIdle

\* a cursor that ignores the page's `next`
NextOffsetStuck(data) == 0

\* offset = int(next_offset)
NextOffset(data) == data.next

\* one iteration of `while True`: the sleep, fetch_batch(offset) and what the
\* loop does with the page
ApiRequest ==
    /\ api_pc = "loop"
    /\ api_sleeps' = IF batch_count > 0 THEN api_sleeps + 1 ELSE api_sleeps
    /\ api_requests' = Append(api_requests, offset)
    /\ LET data == endpoint[offset]
       IN CASE data.kind = "fail" ->
                 /\ api_pc' = "save"
                 /\ UNCHANGED <<offset, batch_count, all_digimon>>
            [] data.kind = "list" ->
                 \* data.get on a list raises AttributeError
                 /\ api_pc' = "raised"
                 /\ UNCHANGED <<offset, batch_count, all_digimon>>
            [] OTHER ->
                 /\ all_digimon' = all_digimon \o data.rows
                 /\ batch_count' = batch_count + 1
                 /\ IF data.next = NoNext
                    THEN api_pc' = "save" /\ UNCHANGED offset
                    ELSE IF data.next = BadNext
                    THEN api_pc' = "raised" /\ UNCHANGED offset
                    ELSE /\ offset' = NextOffset(data)
                         /\ api_pc' = IF batch_count' > PageCap THEN "save" ELSE "loop"
    /\ UNCHANGED <<scraperVars, extraVars, utilVars, parserVars, endpoint, all_file, manifest_file>>

\* after the loop: all_digimon.json and, by generate_detail_urls, the manifest
ApiSave ==
    /\ api_pc = "save"
    /\ all_file' = [exists |-> TRUE, total |-> Len(all_digimon), digimon |-> all_digimon,
                    batches |-> batch_count]
    /\ LET urls_ == generate_detail_urls(all_digimon)
       IN manifest_file' = [exists |-> TRUE, total_urls |-> Len(urls_), urls |-> urls_]
    /\ api_pc' = "done"
    /\ UNCHANGED <<scraperVars, extraVars, utilVars, parserVars, endpoint, offset, batch_count, all_digimon, api_requests,
                   api_sleeps>>

\* --------------------------------------------------------------- construction

ScraperConfigured(configured) ==
    /\ pc = "new"
    /\ mode \in {"sync", "async"}
    /\ respect_robots \in BOOLEAN
    /\ concurrent_requests \in 1..MaxConcurrent
    /\ (mode = "sync" => concurrent_requests = 1)
    /\ config_delay = configured
    /\ delay = configured
    /\ robots_cache = [loaded |-> FALSE, crawl_delay |-> NoDelay]
    /\ robot_parser = NewParser
    /\ robots_read = "none"
    /\ cc_result = NoCompliance
    /\ urls = <<>>
    /\ discovery = NoDiscovery
    /\ scraped_urls = <<>>
    /\ failed_urls = <<>>
    /\ summary = NoSummary
    /\ summary_file = NoSummary
    /\ requested = <<>>
    /\ gave_up_after = <<>>
    /\ idx = 0
    /\ attempt = 0
    /\ outcomes = <<>>
    /\ waits = <<>>
    /\ html = NoneHtml
    /\ slept = <<>>
    /\ sem_value = 0
    /\ task = <<>>
    /\ result = <<>>
    /\ batch_start = 0
    /\ results = <<>>
    /\ save_idx = 0
    /\ disk = <<>>
    /\ earlier = <<>>

\* DigimonScraper() under the default scraping.delay
ScraperNew == ScraperConfigured(ConfigDelay)

\* a run of the scraper with the other stages at rest
Init == ScraperNew /\ StagesIdle

\* DigimonScraper.__init__ with scraping.respect_robots_txt set: builds the
\* RobotsChecker (which loads robots.txt) and takes over its crawl delay
ConstructWithRobots ==
    /\ pc = "new"
    /\ respect_robots
    /\ \E outcome \in ReadOutcomes, rules \in SUBSET DisallowPaths, crawl \in CrawlDelays :
         LET p == ParserAfterRead(outcome, rules, crawl)
             cache == load_robots_txt(outcome, p)
         IN /\ (outcome # "parsed" => rules = {} /\ crawl = NoDelay)
            /\ robots_read' = outcome
            /\ robot_parser' = p
            /\ robots_cache' = cache
            /\ delay' = InitDelay(TRUE, cache, config_delay)
    /\ pc' = "ready"
    /\ UNCHANGED <<stageVars, keptVars, disk, discovery, cc_result, mode, respect_robots, concurrent_requests, urls, listVars,
                   outVars, requested, gave_up_after, seqVars, slept, asyncVars>>

\* DigimonScraper.__init__ without robots checking
ConstructPlain ==
    /\ pc = "new"
    /\ ~respect_robots
    /\ pc' = "ready"
    /\ UNCHANGED <<stageVars, keptVars, disk, discovery, cfgVars, robotVars, urls, listVars, outVars, requested, gave_up_after,
                   seqVars, slept, asyncVars>>

\* an orchestrator that never consults the policy
DisallowedNever(url) == FALSE

\* `self.respect_robots and not self.robots_checker.can_fetch(url)`
Disallowed(url) == respect_robots /\ ~can_fetch(robots_cache, robot_parser, url)

\* ------------------------------------------------------------------ discovery

\* order of Python strings: lexicographic by character
RECURSIVE LexLess(_, _)
LexLess(a, b) ==
    IF a = <<>> THEN b # <<>>
    ELSE IF b = <<>> THEN FALSE
    ELSE IF Head(a) # Head(b) THEN Head(a) < Head(b)
    ELSE LexLess(Tail(a), Tail(b))

\* sorted(list(set(links)))
RECURSIVE SortedList(_)
SortedList(S) ==
    IF S = {} THEN <<>>
    ELSE LET m == CHOOSE x \in S : \A y \in S \ {x} : LexLess(x, y)
         IN <<m>> \o SortedList(S \ {m})

\* a loop that classifies each distinct URL once
RECURSIVE ComplianceLoopOnce(_, _, _, _, _)
ComplianceLoopOnce(cache, p, L, allowed_urls, disallowed_urls) ==
    IF L = <<>>
    THEN [allowed_urls |-> allowed_urls, disallowed_urls |-> disallowed_urls]
    ELSE IF \E k \in 1..Len(allowed_urls) : allowed_urls[k] = Head(L)
         THEN ComplianceLoopOnce(cache, p, Tail(L), allowed_urls, disallowed_urls)
         ELSE IF can_fetch(cache, p, Head(L))
         THEN ComplianceLoopOnce(cache, p, Tail(L), Append(allowed_urls, Head(L)),
                                 disallowed_urls)
         ELSE ComplianceLoopOnce(cache, p, Tail(L), allowed_urls,
                                 Append(disallowed_urls, Head(L)))

\* the loop of check_compliance: one can_fetch per URL, appended to one list
RECURSIVE ComplianceLoop(_, _, _, _, _)
ComplianceLoop(cache, p, L, allowed_urls, disallowed_urls) ==
    IF L = <<>>
    THEN [allowed_urls |-> allowed_urls, disallowed_urls |-> disallowed_urls]
    ELSE IF can_fetch(cache, p, Head(L))
         THEN ComplianceLoop(cache, p, Tail(L), Append(allowed_urls, Head(L)),
                             disallowed_urls)
         ELSE ComplianceLoop(cache, p, Tail(L), allowed_urls,
                             Append(disallowed_urls, Head(L)))

\* RobotsChecker.check_compliance (request_rate is not modelled)
check_compliance(cache, p, L) ==
    LET r == ComplianceLoop(cache, p, L, <<>>, <<>>)
    IN [total_urls |-> Len(L),
        allowed |-> Len(r.allowed_urls),
        disallowed |-> Len(r.disallowed_urls),
        crawl_delay |-> get_crawl_delay(cache),
        allowed_urls |-> r.allowed_urls,
        disallowed_urls |-> r.disallowed_urls]

\* DigimonScraper.get_digimon_urls.  manifest: the urls of
\* _all_digimon_urls.json when the file exists; index: what fetching the index
\* page came to; links: the detail links a selector found in it
get_digimon_urls(respect, cache, p, use_api_urls, manifest_exists, manifest, index, links) ==
    IF use_api_urls /\ manifest_exists THEN manifest
    ELSE IF respect /\ ~can_fetch(cache, p, IndexUrl) THEN <<>>
    ELSE IF index # "body" THEN <<>>
    ELSE LET digimon_links == SortedList(links)
             compliance == check_compliance(cache, p, digimon_links)
         IN IF respect /\ digimon_links # <<>> /\ compliance.disallowed > 0
            THEN compliance.allowed_urls
            ELSE digimon_links

\* the path get_digimon_urls took: the manifest of the API fetch, or the index
\* page, which the policy forbade or whose fetch came to `index`
DiscoveryPath(respect, cache, p, use_api_urls, manifest_exists, index) ==
    IF use_api_urls /\ manifest_exists
    THEN [source |-> "manifest", index |-> "not_fetched"]
    ELSE IF respect /\ ~can_fetch(cache, p, IndexUrl)
    THEN [source |-> "index", index |-> "disallowed"]
    ELSE [source |-> "index", index |-> index]

\* the first batch_size targets from index i on: urls[i:i + batch_size]
Batch(i) == {j \in 1..Len(urls) : i <= j /\ j < i + BatchSize}

\* A summary an earlier run returned, as its caller holds it: the dict as it
\* was returned, the dict as it reads now, and whether its "failed_urls" is
\* still the very list self.failed_urls names; with it, how long the two lists
\* of the scraper were when the run returned
ReturnedSummary(returned, shared, ok, bad) ==
    [returned |-> returned, now |-> returned, shares_list |-> shared,
     success_then |-> Len(ok), failed_then |-> Len(bad)]

\* what the caller reads in a summary it holds, given self.failed_urls
ReadNow(held, failures) ==
    IF held.shares_list
    THEN [held.now EXCEPT !.failed_urls = failures]
    ELSE held.now

\* self.failed_urls = [] names a new list: a summary that shared the old one
\* keeps the old list as it was left
Unshared(held, failures) ==
    [held EXCEPT !.now = ReadNow(held, failures), !.shares_list = FALSE]

\* scrape_all / scrape_all_async up to the first target: discovery, the early
\* return on an empty list, and for the concurrent mode the reset of the
\* counters, the semaphore and the tasks of the first batch
DiscoverUpTo(n) ==
    /\ pc = "ready"
    /\ \E use_api_urls \in BOOLEAN, manifest_exists \in BOOLEAN,
          manifest \in SeqsUpTo(Urls, n), index \in FetchOutcomes,
          links \in SUBSET Urls :
         /\ Cardinality(links) <= n
         /\ urls' = get_digimon_urls(respect_robots, robots_cache, robot_parser,
                                     use_api_urls, manifest_exists, manifest, index, links)
         /\ discovery' = DiscoveryPath(respect_robots, robots_cache, robot_parser,
                                       use_api_urls, manifest_exists, index)
    /\ requested' = [i \in 1..Len(urls') |-> FALSE]
    /\ gave_up_after' = [i \in 1..Len(urls') |-> 0]
    /\ slept' = [i \in 1..Len(urls') |-> 0]
    /\ IF urls' = <<>>
       THEN /\ summary' = Summary(0, <<>>, <<>>)
            /\ pc' = "done"
            /\ UNCHANGED <<summary_file, listVars, seqVars, asyncVars, earlier>>
       ELSE IF mode = "sync"
       THEN /\ pc' = "seq_loop"
            /\ idx' = 1
            /\ UNCHANGED <<attempt, outcomes, waits, html, outVars, listVars, asyncVars, earlier>>
       ELSE /\ pc' = "gather"
            /\ scraped_urls' = <<>>
            /\ failed_urls' = <<>>
            /\ sem_value' = concurrent_requests
            /\ batch_start' = 1
            /\ task' = [i \in 1..Len(urls') |-> IF i < 1 + BatchSize THEN "waiting" ELSE "none"]
            /\ result' = [i \in 1..Len(urls') |-> NoneHtml]
            /\ results' = <<>>
            /\ save_idx' = 0
            /\ earlier' = [k \in DOMAIN earlier |-> Unshared(earlier[k], failed_urls)]
            /\ UNCHANGED <<outVars, seqVars>>
    /\ UNCHANGED <<stageVars, config_delay, disk, cfgVars, robotVars>>

Discover == DiscoverUpTo(MaxUrls)

\* ---------------------------------------------------------------- scrape_all

\* a handler that logs the failure and does not record it
RecordFailureLost(failed, url, reason) == failed

\* failed_urls.append((url, reason))
RecordFailure(failed, url, reason) == Append(failed, <<url, reason>>)

\* a retry that stops one attempt late
ShouldStopLate(attempt_number) == attempt_number > StopAfterAttempt

\* stop_after_attempt: no further attempt once this many were made
ShouldStop(attempt_number) == attempt_number >= StopAfterAttempt

\* what can happen to a fetched page in the try block: saved and processed,
\* save_html raises, or the image step raises after the page was saved
ProcessOutcomes == {"ok", "save_error", "post_error"}

\* a target URL as save_html takes it apart: detail.php?directory_name=<name>,
\* the tokens of the URL standing for the characters of the name
TargetUrl(url) ==
    [kind |-> "param",
     text |-> [k \in DOMAIN url |-> CASE url[k] = 1 -> "a"
                                      [] url[k] = 2 -> "_"
                                      [] url[k] = 3 -> "B"
                                      [] OTHER -> "/"]]

\* the file save_html writes for each target URL
TargetFile == [url \in Urls |-> save_html_file(TargetUrl(url))]

\* a write that leaves an existing file as it is
KeepFile(files, name, page) == IF name \in DOMAIN files THEN files ELSE DictSet(files, name, page)

\* open(file_path, 'w') and f.write(html)
WriteFile(files, name, page) == DictSet(files, name, page)

\* head of one loop iteration: the robots check, then the rate-limit sleep
SeqCheck ==
    /\ pc = "seq_loop"
    /\ idx <= Len(urls)
    /\ IF Disallowed(urls[idx])
       THEN /\ failed_urls' = RecordFailure(failed_urls, urls[idx], "Disallowed by robots.txt")
            /\ idx' = idx + 1
            /\ UNCHANGED <<pc, attempt, outcomes, waits, slept>>
       ELSE /\ slept' = [slept EXCEPT ![idx] = delay]
            /\ pc' = "seq_fetch"
            /\ attempt' = 1
            /\ outcomes' = <<>>
            /\ waits' = <<>>
            /\ UNCHANGED <<failed_urls, idx>>
    /\ UNCHANGED <<stageVars, keptVars, disk, discovery, cfgVars, robotVars, urls, scraped_urls, outVars, requested, gave_up_after, html,
                   asyncVars>>

\* fetch_page: one attempt.  A failed attempt is followed by the backoff wait
\* and another attempt, or after the last attempt by the error of the retry
\* decorator
SeqRequest ==
    /\ pc = "seq_fetch"
    /\ requested' = [requested EXCEPT ![idx] = TRUE]
    /\ \E outcome \in FetchOutcomes :
         /\ outcomes' = Append(outcomes, outcome)
         /\ IF outcome # "fail"
            THEN /\ html' = Response(outcome, urls[idx], attempt)
                 /\ pc' = "seq_fetched"
                 /\ UNCHANGED <<attempt, waits>>
            ELSE IF ShouldStop(attempt)
            THEN /\ pc' = "seq_raised"
                 /\ UNCHANGED <<attempt, waits, html>>
            ELSE /\ waits' = Append(waits, wait_exponential(attempt))
                 /\ attempt' = attempt + 1
                 /\ UNCHANGED <<pc, html>>
    /\ UNCHANGED <<stageVars, keptVars, disk, discovery, cfgVars, robotVars, urls, listVars, outVars, gave_up_after, idx,
                   slept, asyncVars>>

\* `except Exception` of the loop body, reached by the error of fetch_page:
\* the target is recorded as failed and the loop goes on
SeqCatch ==
    /\ pc = "seq_raised"
    /\ failed_urls' = RecordFailure(failed_urls, urls[idx], "RetryError")
    /\ gave_up_after' = [gave_up_after EXCEPT ![idx] = Len(outcomes)]
    /\ idx' = idx + 1
    /\ pc' = "seq_loop"
    /\ attempt' = 0
    /\ outcomes' = <<>>
    /\ waits' = <<>>
    /\ UNCHANGED <<stageVars, keptVars, disk, discovery, cfgVars, robotVars, urls, scraped_urls, outVars, requested, html,
                   slept, asyncVars>>

\* the rest of the try block: `if html:` save, record, image
SeqProcess ==
    /\ pc = "seq_fetched"
    /\ \E how \in ProcessOutcomes :
         IF ~Truthy(html)
         THEN how = "ok" /\ UNCHANGED <<listVars, disk>>
         ELSE /\ disk' = IF how = "save_error" THEN disk
                         ELSE WriteFile(disk, TargetFile[urls[idx]], urls[idx])
              /\ scraped_urls' = IF how = "save_error" THEN scraped_urls
                                 ELSE Append(scraped_urls, urls[idx])
              /\ failed_urls' = IF how = "ok" THEN failed_urls
                                ELSE RecordFailure(failed_urls, urls[idx], how)
    /\ idx' = idx + 1
    /\ pc' = "seq_loop"
    /\ html' = NoneHtml
    /\ attempt' = 0
    /\ outcomes' = <<>>
    /\ waits' = <<>>
    /\ UNCHANGED <<stageVars, keptVars, discovery, cfgVars, robotVars, urls, outVars, requested, gave_up_after,
                   slept, asyncVars>>

\* after the loop: the summary is built, written and returned
SeqSummary ==
    /\ pc = "seq_loop"
    /\ idx > Len(urls)
    /\ summary' = Summary(Len(urls), scraped_urls, failed_urls)
    /\ summary_file' = summary'
    /\ pc' = "done"
    /\ UNCHANGED <<stageVars, keptVars, disk, discovery, cfgVars, robotVars, urls, listVars, requested, gave_up_after, seqVars, slept,
                   asyncVars>>

\* ---------------------------------------------------------- scrape_all_async

\* a semaphore that admits one task too many
LockedOffByOne(value) == value < 0

\* Semaphore.locked()
Locked(value) == value <= 0

\* a task is admitted in creation order (the semaphore wakes waiters first in,
\* first out).  Without a suspension point between the admission and the
\* robots check, a disallowed target is recorded and its permit is back before
\* any other task runs; an allowed target issues its request
Admit(i) ==
    /\ pc = "gather"
    /\ i \in Batch(batch_start)
    /\ task[i] = "waiting"
    /\ \A j \in Batch(batch_start) : j < i => task[j] # "waiting"
    /\ ~Locked(sem_value)
    /\ IF Disallowed(urls[i])
       THEN /\ failed_urls' = RecordFailure(failed_urls, urls[i], "Disallowed by robots.txt")
            /\ task' = [task EXCEPT ![i] = "done"]
            /\ result' = [result EXCEPT ![i] = NoneHtml]
            /\ UNCHANGED <<sem_value, requested>>
       ELSE /\ sem_value' = sem_value - 1
            /\ requested' = [requested EXCEPT ![i] = TRUE]
            /\ task' = [task EXCEPT ![i] = "fetching"]
            /\ UNCHANGED <<failed_urls, result>>
    /\ UNCHANGED <<stageVars, keptVars, disk, discovery, pc, cfgVars, robotVars, urls, scraped_urls, outVars, seqVars,
                   gave_up_after, slept, batch_start, results, save_idx>>

\* fetch_page_async resolves: the body, or after any exception None; the task
\* goes on to asyncio.sleep(self.delay)
FetchResolve(i) ==
    /\ pc = "gather"
    /\ i \in DOMAIN task
    /\ task[i] = "fetching"
    /\ \E outcome \in FetchOutcomes :
         /\ result' = [result EXCEPT ![i] = Response(outcome, urls[i], 1)]
         /\ gave_up_after' = [gave_up_after EXCEPT ![i] = IF outcome = "fail" THEN 1 ELSE @]
    /\ task' = [task EXCEPT ![i] = "delaying"]
    /\ UNCHANGED <<stageVars, keptVars, disk, discovery, pc, cfgVars, robotVars, urls, listVars, outVars, requested,
                   seqVars, slept, sem_value, batch_start, results, save_idx>>

\* the sleep is over: the task returns its result and leaves the semaphore
DelayElapsed(i) ==
    /\ pc = "gather"
    /\ i \in DOMAIN task
    /\ task[i] = "delaying"
    /\ slept' = [slept EXCEPT ![i] = delay]
    /\ sem_value' = sem_value + 1
    /\ task' = [task EXCEPT ![i] = "done"]
    /\ UNCHANGED <<stageVars, keptVars, disk, discovery, pc, cfgVars, robotVars, urls, listVars, outVars, requested, gave_up_after,
                   seqVars, result, batch_start, results, save_idx>>

\* a gather whose raising fetches leave no pair behind
RECURSIVE PairsWithoutRaised(_, _)
PairsWithoutRaised(lo, hi) ==
    IF lo > hi THEN <<>>
    ELSE (IF gave_up_after[lo] # 0 THEN <<>> ELSE <<<<urls[lo], result[lo]>>>>)
         \o PairsWithoutRaised(lo + 1, hi)

\* the (url, html) pairs of the targets lo..hi, in list order
RECURSIVE Pairs(_, _)
Pairs(lo, hi) ==
    IF lo > hi THEN <<>> ELSE <<<<urls[lo], result[lo]>>>> \o Pairs(lo + 1, hi)

\* a wait that is over as soon as one task of the batch is done
GatheredFirst(i) == \E j \in Batch(i) : task[j] = "done"

\* `await asyncio.gather(*batch_tasks, return_exceptions=True)` is over
Gathered(i) == \A j \in Batch(i) : task[j] = "done"

\* asyncio.gather returns once every task of the batch is done; its results
\* are appended and the next batch's tasks are created, or saving begins
GatherDone ==
    /\ pc = "gather"
    /\ Gathered(batch_start)
    /\ results' = results \o Pairs(batch_start, Min2(batch_start + BatchSize - 1, Len(urls)))
    /\ IF batch_start + BatchSize <= Len(urls)
       THEN /\ batch_start' = batch_start + BatchSize
            /\ task' = [i \in DOMAIN task |->
                          IF i \in Batch(batch_start + BatchSize) THEN "waiting" ELSE task[i]]
            /\ UNCHANGED <<pc, save_idx>>
       ELSE /\ pc' = "saving"
            /\ save_idx' = 1
            /\ UNCHANGED <<batch_start, task>>
    /\ UNCHANGED <<stageVars, keptVars, disk, discovery, cfgVars, robotVars, urls, listVars, outVars, requested, gave_up_after, seqVars,
                   slept, sem_value, result>>

\* Python's `a in b` for strings
IsSubstring(a, b) ==
    \E k \in 0..(Len(b) - Len(a)) : SubSeq(b, k + 1, k + Len(a)) = a

\* any(url in failed[0] for failed in self.failed_urls)
AlreadyFailed(failed, url) ==
    \E k \in 1..Len(failed) : IsSubstring(url, failed[k][1])

\* one iteration of the saving loop
AsyncSave ==
    /\ pc = "saving"
    /\ save_idx <= Len(results)
    /\ LET url == results[save_idx][1]
           content == results[save_idx][2]
       IN \E how \in ProcessOutcomes :
            IF Truthy(content)
            THEN /\ disk' = IF how = "save_error" THEN disk
                            ELSE WriteFile(disk, TargetFile[url], url)
                 /\ scraped_urls' = IF how = "save_error" THEN scraped_urls
                                    ELSE Append(scraped_urls, url)
                 /\ failed_urls' = IF how = "ok" THEN failed_urls
                                   ELSE RecordFailure(failed_urls, url, how)
            ELSE /\ how = "ok"
                 /\ UNCHANGED disk
                 /\ scraped_urls' = scraped_urls
                 /\ failed_urls' = IF AlreadyFailed(failed_urls, url) THEN failed_urls
                                   ELSE RecordFailure(failed_urls, url, "No content returned")
    /\ save_idx' = save_idx + 1
    /\ UNCHANGED <<stageVars, keptVars, discovery, pc, cfgVars, robotVars, urls, outVars, requested, gave_up_after, seqVars, slept,
                   sem_value, task, result, batch_start, results>>

\* after the saving loop: the summary is built, written and returned
AsyncSummary ==
    /\ pc = "saving"
    /\ save_idx > Len(results)
    /\ summary' = Summary(Len(urls), scraped_urls, failed_urls)
    /\ summary_file' = summary'
    /\ pc' = "done"
    /\ UNCHANGED <<stageVars, keptVars, disk, discovery, cfgVars, robotVars, urls, listVars, requested, gave_up_after, seqVars, slept,
                   asyncVars>>

\* ------------------------------------------------------------------------ main

\* a main that reports every returned run as completed
ExitStatusZero(s) == 0

\* the status main() exits with once the run has returned its summary:
\* `duration/summary['total']` raises ZeroDivisionError for a total of 0, which
\* `except Exception` turns into sys.exit(1); otherwise main returns
ExitStatus(s) == IF s.total = 0 THEN 1 ELSE 0

\* main() after scrape_all / scrape_all_async has returned
MainExit ==
    /\ pc = "done"
    /\ pc' = IF ExitStatus(summary) = 0 THEN "exit_0" ELSE "exit_1"
    /\ UNCHANGED <<stageVars, keptVars, disk, discovery, cfgVars, robotVars, urls, listVars, outVars, requested,
                   gave_up_after, seqVars, slept, asyncVars>>

Next ==
    \/ ConstructWithRobots
    \/ ConstructPlain
    \/ Discover
    \/ SeqCheck
    \/ SeqRequest
    \/ SeqCatch
    \/ SeqProcess
    \/ SeqSummary
    \/ \E i \in 1..MaxUrls : Admit(i)
    \/ \E i \in 1..MaxUrls : FetchResolve(i)
    \/ \E i \in 1..MaxUrls : DelayElapsed(i)
    \/ GatherDone
    \/ AsyncSave
    \/ AsyncSummary
    \/ MainExit

Spec == Init /\ [][Next]_vars

\* ------------------------------------------------ fetch_all_digimon on its own

\* DigimonAPIFetcher().fetch_all_digimon() against any of the endpoints
InitApi ==
    /\ ScraperNew
    /\ mode = "sync"
    /\ ~respect_robots
    /\ endpoint \in Endpoints
    /\ api_pc = "loop"
    /\ offset = 0
    /\ batch_count = 0
    /\ all_digimon = <<>>
    /\ api_requests = <<>>
    /\ api_sleeps = 0
    /\ all_file = NoFile
    /\ manifest_file = NoManifest
    /\ UtilIdle
    /\ ParserIdle
    /\ ExtraIdle

NextApi == ApiRequest \/ ApiSave

SpecApi == InitApi /\ [][NextApi]_vars

\* ------------------------------------------------ sanitize_filename on its own

InitUtil ==
    /\ ScraperNew
    /\ mode = "sync"
    /\ ~respect_robots
    /\ ApiIdle
    /\ fs_name \in Names
    /\ fs_out = <<>>
    /\ fs_file = NotSaved
    /\ ParserIdle
    /\ ExtraIdle

NextUtil == Sanitize \/ SaveHtml

SpecUtil == InitUtil /\ [][NextUtil]_vars

\* -------------------------------------------------- parse_html_file on its own

InitParser ==
    /\ ScraperNew
    /\ mode = "sync"
    /\ ~respect_robots
    /\ ApiIdle
    /\ UtilIdle
    /\ p_pc = "ready"
    /\ p_file \in Files
    /\ p_data = NoneData
    /\ ExtraIdle

NextParser == Parse

SpecParser == InitParser /\ [][NextParser]_vars

\* -------------------------------------------------- parse_all_files on its own

InitBatch ==
    /\ ScraperNew
    /\ mode = "sync"
    /\ ~respect_robots
    /\ ApiIdle
    /\ UtilIdle
    /\ ParserIdle
    /\ b_pc = "ready"
    /\ b_dir \in Directories
    /\ b_unwritable \in SUBSET OutputNames
    /\ b_html_files = <<>>
    /\ b_i = 1
    /\ b_successful = 0
    /\ b_failed = 0
    /\ b_failed_files = <<>>
    /\ b_attempted = <<>>
    /\ b_out = <<>>
    /\ b_summary_file = NoSummaryFile
    /\ b_history = <<>>
    /\ b_exit = "none"
    /\ TransIdle

NextBatch == ParseAllStart \/ ParseAllStep \/ ParseAllSummary \/ ParseAllAgain \/ ParserMain

SpecBatch == InitBatch /\ [][NextBatch]_vars

\* ---------------------------------------------- process_all_digimon on its own

InitTranslate ==
    /\ ScraperNew
    /\ mode = "sync"
    /\ ~respect_robots
    /\ ApiIdle
    /\ UtilIdle
    /\ ParserIdle
    /\ BatchIdle
    /\ t_pc = "ready"
    /\ t_input \in InputDirectories
    /\ t_output \in OutputDirectories
    /\ t_before = <<>>
    /\ t_lru = <<>>
    /\ t_cache = <<>>
    /\ t_i = 1
    /\ t_stats = NewStats(0)
    /\ t_log = <<>>
    /\ t_clock = 0
    /\ t_summary_file = NoSummaryFile
    /\ t_history = <<>>

NextTranslate == TranslateStart \/ TranslateStep \/ TranslateSummary \/ TranslateAgain

SpecTranslate == InitTranslate /\ [][NextTranslate]_vars

\* ------------------------------------------- check_compliance on any URL list

\* a checker is constructed as by DigimonScraper.__init__ with robots checking
InitCompliance == Init /\ respect_robots /\ mode = "sync"

\* check_compliance(L) for a list L over the target URLs and the index URL,
\* repeated URLs included
CheckCompliance ==
    /\ pc = "ready"
    /\ \E L \in SeqsUpTo(Urls \cup {IndexUrl}, MaxUrls) :
         /\ urls' = L
         /\ cc_result' = check_compliance(robots_cache, robot_parser, L)
    /\ pc' = "cc_done"
    /\ UNCHANGED <<stageVars, keptVars, disk, discovery, cfgVars, robots_cache, robot_parser, robots_read, listVars, outVars,
                   requested, gave_up_after, seqVars, slept, asyncVars>>

NextCompliance == ConstructWithRobots \/ CheckCompliance

SpecCompliance == InitCompliance /\ [][NextCompliance]_vars

\* ===================================================================== claims

Range(f) == {f[k] : k \in DOMAIN f}

\* number of the batch target i belongs to (0 for the first)
BatchOf(i) == (i - 1) \div BatchSize

\* the targets holding a permit of the semaphore
Holders == {i \in DOMAIN task : task[i] \in {"fetching", "delaying"}}

\* the policy forbids fetching url (robots checking enabled)
Denied(url) == respect_robots /\ ~can_fetch(robots_cache, robot_parser, url)

\* C1: in scrape_all_async at most concurrent_requests targets hold a permit
\* (fetch in flight or in the delay after it), in every state of every
\* interleaving, and a target gives its permit back only from the delay that
\* follows its resolved fetch, having slept self.delay
C1_PermitBound ==
    /\ [](/\ Cardinality(Holders) <= concurrent_requests
          /\ (pc = "gather" => sem_value = concurrent_requests - Cardinality(Holders)))
    /\ [][\A i \in Holders :
            i \notin Holders' => task[i] = "delaying" /\ slept'[i] = delay]_vars

\* C1 witness: every permit is taken, one holder is in its post-fetch delay
\* and another target of the batch is waiting for admission
C1_Witness ==
    /\ pc = "gather"
    /\ Cardinality(Holders) = concurrent_requests
    /\ \E i \in Holders : task[i] = "delaying"
    /\ \E j \in DOMAIN task : task[j] = "waiting"

\* C2: the URL list is cut into consecutive batches of batch_size targets and a
\* batch boundary is a barrier: a target has a task, and all the more a
\* request, only when every target of every earlier batch is resolved
C2_BatchBarrier ==
    \A i \in DOMAIN task, j \in DOMAIN task :
        (BatchOf(i) < BatchOf(j) /\ (task[j] # "none" \/ requested[j]))
            => task[i] = "done"

\* C2 witness: a fetch of the second batch is in flight after a first batch in
\* which one fetch ended with an exception and another with content
C2_Witness ==
    \E i \in DOMAIN task, k \in DOMAIN task, j \in DOMAIN task :
        /\ BatchOf(i) = 0 /\ BatchOf(k) = 0 /\ BatchOf(j) = 1
        /\ gave_up_after[i] = 1
        /\ Truthy(result[k])
        /\ task[j] = "fetching"

\* C3: fetch_page makes at most 3 requests and stops at the first successful
\* one: when it returns after n requests, the first n - 1 failed, the n-th did
\* not, and the value returned is the n-th response; it raises only after 3
\* failed requests; between two attempts it waits between 4 and 10 seconds
C3_FetchPageRetry ==
    /\ Len(outcomes) <= 3
    /\ \A k \in DOMAIN waits : 4 <= waits[k] /\ waits[k] <= 10
    /\ pc = "seq_fetch" =>
         /\ Len(outcomes) = attempt - 1
         /\ Len(waits) = Len(outcomes)
         /\ \A k \in DOMAIN outcomes : outcomes[k] = "fail"
    /\ pc = "seq_fetched" =>
         LET n == Len(outcomes)
         IN /\ n >= 1
            /\ \A k \in 1..(n - 1) : outcomes[k] = "fail"
            /\ outcomes[n] # "fail"
            /\ ~html.none
            /\ html.text = IF outcomes[n] = "body" THEN <<urls[idx], n>> ELSE <<>>
            /\ Len(waits) = n - 1
    /\ pc = "seq_raised" =>
         /\ Len(outcomes) = 3
         /\ Len(waits) = 2
         /\ \A k \in DOMAIN outcomes : outcomes[k] = "fail"

\* C3 witness: two failed attempts, then the third attempt's body is returned
C3_Witness ==
    /\ pc = "seq_fetched"
    /\ outcomes = <<"fail", "fail", "body">>
    /\ html.text = <<urls[idx], 3>>
    /\ waits = <<4, 4>>

\* C4: in scrape_all a target whose 3 attempts all fail is caught at the
\* target: the handler appends exactly one failure entry for it, leaves the
\* success list alone and goes on with the next target, and the run ends with
\* a summary over all targets, each of them checked and, where allowed, fetched
C4_ExhaustionCaught ==
    /\ [][pc = "seq_raised" =>
            /\ failed_urls' = Append(failed_urls, <<urls[idx], "RetryError">>)
            /\ scraped_urls' = scraped_urls
            /\ pc' = "seq_loop"
            /\ idx' = idx + 1]_vars
    /\ [](pc = "seq_raised" =>
            Len(outcomes) = 3 /\ \A k \in DOMAIN outcomes : outcomes[k] = "fail")
    /\ []((pc = "done" /\ mode = "sync" /\ urls # <<>>) =>
            /\ summary.total = Len(urls)
            /\ summary.failed_urls = failed_urls
            /\ \A i \in DOMAIN urls : requested[i] \/ Denied(urls[i])
            /\ \A i \in DOMAIN urls :
                 gave_up_after[i] # 0 => <<urls[i], "RetryError">> \in Range(failed_urls))

\* C4 witness: a finished sequential run in which one target exhausted its
\* attempts and a later target was fetched and saved
C4_Witness ==
    /\ pc = "done"
    /\ mode = "sync"
    /\ \E i \in DOMAIN urls, j \in DOMAIN urls :
         /\ i < j
         /\ gave_up_after[i] = 3
         /\ requested[j]
         /\ urls[j] # urls[i]
         /\ urls[j] \in Range(scraped_urls)

\* C5 (as claimed): in both modes a target's fetch is given up, and the target
\* recorded as failed, only after the 3 attempts of the cap
C5_RetriedToTheCap ==
    \A i \in DOMAIN gave_up_after : gave_up_after[i] # 0 => gave_up_after[i] = 3

\* C6: in scrape_all_async a fetch that raises resolves to (url, None); the
\* gathered results hold one pair per target in list order, every allowed
\* target of every batch was requested, the run is never stuck and its
\* summary counts every target
C6_FetchExceptionIsolated ==
    mode = "async" =>
      /\ \A i \in DOMAIN task :
           (gave_up_after[i] = 1 /\ task[i] \in {"delaying", "done"}) => result[i] = NoneHtml
      /\ pc \in {"saving", "done"} /\ urls # <<>> =>
           /\ Len(results) = Len(urls)
           /\ \A i \in DOMAIN urls :
                /\ results[i] = <<urls[i], result[i]>>
                /\ task[i] = "done"
                /\ requested[i] \/ Denied(urls[i])
      /\ pc = "done" => summary.total = Len(urls)
      /\ pc \notin {"exit_0", "exit_1"} => ENABLED Next

\* C6 witness: a finished concurrent run in which a fetch of the first batch
\* raised, another fetch of that batch and a fetch of the next batch were saved
C6_Witness ==
    /\ pc = "done"
    /\ mode = "async"
    /\ \E i \in DOMAIN urls, k \in DOMAIN urls, j \in DOMAIN urls :
         /\ BatchOf(i) = 0 /\ BatchOf(k) = 0 /\ BatchOf(j) = 1
         /\ gave_up_after[i] = 1
         /\ results[i] = <<urls[i], NoneHtml>>
         /\ urls[k] \in Range(scraped_urls)
         /\ urls[j] \in Range(scraped_urls)

\* C7: with robots checking enabled no request is issued for a target the
\* policy forbids, in either mode; such a target is never in the success list
\* and a finished run holds it in the failure list as disallowed
C7_NoRequestWhenDisallowed ==
    respect_robots =>
      \A i \in DOMAIN urls :
        ~can_fetch(robots_cache, robot_parser, urls[i]) =>
          /\ ~requested[i]
          /\ urls[i] \notin Range(scraped_urls)
          /\ pc = "done" => <<urls[i], "Disallowed by robots.txt">> \in Range(failed_urls)

\* C7 witness: a finished concurrent run over a forbidden and an allowed target
C7_Witness ==
    /\ pc = "done"
    /\ mode = "async"
    /\ robots_read = "parsed"
    /\ \E i \in DOMAIN urls, j \in DOMAIN urls :
         /\ Denied(urls[i])
         /\ <<urls[i], "Disallowed by robots.txt">> \in Range(failed_urls)
         /\ requested[j]
         /\ urls[j] \in Range(scraped_urls)

\* reading robots.txt failed: read() raised, or the server answered 401/403 or
\* with a status outside 4xx (a 404 is read as "the site has no robots.txt")
LoadFailed == robots_read \in {"raised", "http_auth", "http_5xx"}

\* C8 (as claimed): whenever loading robots.txt failed, the constructor has
\* returned a policy that allows every URL and reports a crawl delay of 1.0
C8_FailOpenOnLoadFailure ==
    LoadFailed =>
      /\ pc # "new"
      /\ \A url \in Urls \cup {IndexUrl} : can_fetch(robots_cache, robot_parser, url)
      /\ get_crawl_delay(robots_cache) = 1

\* C10 (as claimed): a run that has returned has written scrape_summary.json
\* with the summary it returns
C10_SummaryPersisted ==
    pc = "done" => summary_file # NoSummary /\ summary_file = summary

\* occurrences of x in the list L
Count(x, L) == Cardinality({k \in DOMAIN L : L[k] = x})

\* C9: check_compliance(L) partitions L: allowed_urls is L restricted to the
\* URLs can_fetch allows and disallowed_urls is L restricted to the others,
\* both in the order of L, so that every occurrence of a URL is in exactly one
\* list, and allowed + disallowed = total_urls = len(L)
C9_CompliancePartition ==
    pc = "cc_done" =>
      LET ok(url) == can_fetch(robots_cache, robot_parser, url)
          no(url) == ~can_fetch(robots_cache, robot_parser, url)
      IN /\ cc_result.allowed_urls = SelectSeq(urls, ok)
         /\ cc_result.disallowed_urls = SelectSeq(urls, no)
         /\ \A url \in Range(urls) :
              /\ Count(url, cc_result.allowed_urls) = IF ok(url) THEN Count(url, urls) ELSE 0
              /\ Count(url, cc_result.disallowed_urls) = IF ok(url) THEN 0 ELSE Count(url, urls)
         /\ cc_result.allowed = Len(cc_result.allowed_urls)
         /\ cc_result.disallowed = Len(cc_result.disallowed_urls)
         /\ cc_result.total_urls = Len(urls)
         /\ cc_result.allowed + cc_result.disallowed = cc_result.total_urls

\* C9 witness: a list with a repeated allowed URL around a disallowed one
C9_Witness ==
    /\ pc = "cc_done"
    /\ Len(urls) = 3
    /\ urls[1] = urls[3]
    /\ cc_result.allowed_urls = <<urls[1], urls[3]>>
    /\ cc_result.disallowed_urls = <<urls[2]>>

\* entries of the failure list that name url
FailedCount(url) == Cardinality({k \in DOMAIN failed_urls : failed_urls[k][1] = url})

\* C11 (as claimed): after scrape_all every target is in the success list or in
\* the failure list and not in both, and success + failed = total
C11_OneOutcomePerTarget ==
    (pc = "done" /\ mode = "sync" /\ urls # <<>>) =>
      /\ \A i \in DOMAIN urls :
           (urls[i] \in Range(scraped_urls)) # (FailedCount(urls[i]) > 0)
      /\ summary.success + summary.failed = summary.total

\* C12 (as claimed): after scrape_all_async every target that was not saved is
\* in the failure list exactly once, every saved target is in the success list
\* only, and success + failed = total
C12_AsyncOneOutcomePerTarget ==
    (pc = "done" /\ mode = "async" /\ urls # <<>>) =>
      /\ \A i \in DOMAIN urls :
           IF urls[i] \in Range(scraped_urls)
           THEN FailedCount(urls[i]) = 0
           ELSE FailedCount(urls[i]) = Count(urls[i], urls)
      /\ summary.success + summary.failed = summary.total

\* ------------------------------------------------- interrupt of a concurrent run

\* Ctrl-C while asyncio.run(scrape_all_async()) waits in asyncio.gather: the
\* main task is cancelled, gather cancels every task of the batch that is not
\* done (a waiting task, a fetch in flight, a task in its sleep), none of which
\* catches the cancellation (`except Exception` of fetch_page_async does not),
\* and main() catches KeyboardInterrupt and exits with status 1
Interrupt ==
    /\ pc = "gather"
    /\ task' = [i \in DOMAIN task |->
                  IF task[i] \in {"waiting", "fetching", "delaying"} THEN "cancelled"
                  ELSE task[i]]
    /\ pc' = "interrupted"
    /\ UNCHANGED <<stageVars, keptVars, disk, discovery, cfgVars, robotVars, urls, listVars, outVars, requested, gave_up_after,
                   seqVars, slept, sem_value, result, batch_start, results, save_idx>>

NextInterrupt == Next \/ Interrupt

SpecInterrupt == Init /\ [][NextInterrupt]_vars

\* the fetch of target i came to its own resolution: a response or an error
Resolved(i) == result[i] # NoneHtml \/ gave_up_after[i] # 0

\* C13 (as claimed): after an interrupt of a concurrent run every fetch that
\* was in flight has run to its own resolution
C13_InFlightDrains ==
    pc = "interrupted" => \A i \in DOMAIN urls : requested[i] => Resolved(i)

\* the page the k-th request of fetch_all_digimon was answered with
PageOf(k) == endpoint[api_requests[k]]

\* the endpoint of the two-page scenario: offset 0 gives 2 entries and next = 5,
\* offset 5 gives 1 entry and next = -1, every entry with a directory_name
TwoPageScenario ==
    /\ endpoint[0].kind = "dict" /\ Len(endpoint[0].rows) = 2 /\ endpoint[0].next = 5
    /\ endpoint[5].kind = "dict" /\ Len(endpoint[5].rows) = 1 /\ endpoint[5].next = NoNext
    /\ \A o \in Offsets : \A k \in DOMAIN endpoint[o].rows : endpoint[o].rows[k] # NoName

\* C14: fetch_all_digimon requests offset 0 and then each page's `next` in
\* turn, never requests after a page whose `next` is -1, appends the rows of
\* every page it reads in order, and when every accumulated entry has a
\* directory_name the manifest holds one detail URL per entry, in order; the
\* two-page scenario ends with 3 URLs after 2 requests
C14_CursorFollowed ==
    /\ [](/\ api_requests # <<>> => api_requests[1] = 0
          /\ \A k \in 2..Len(api_requests) :
               /\ PageOf(k - 1).kind = "dict"
               /\ PageOf(k - 1).next # NoNext
               /\ api_requests[k] = PageOf(k - 1).next
          /\ (api_requests # <<>> /\ PageOf(Len(api_requests)).kind = "dict"
                /\ PageOf(Len(api_requests)).next = NoNext) => api_pc # "loop")
    /\ [][IF api_requests' # api_requests
          THEN LET data == endpoint[api_requests'[Len(api_requests')]]
               IN /\ api_requests' = Append(api_requests, offset)
                  /\ all_digimon' = all_digimon \o
                                      (IF data.kind = "dict" THEN data.rows ELSE <<>>)
          ELSE all_digimon' = all_digimon]_vars
    /\ []((api_pc = "done" /\ \A k \in DOMAIN all_digimon : all_digimon[k] # NoName) =>
            /\ manifest_file.exists
            /\ manifest_file.total_urls = Len(all_digimon)
            /\ Len(manifest_file.urls) = Len(all_digimon)
            /\ \A k \in DOMAIN all_digimon : manifest_file.urls[k] = DetailUrl(all_digimon[k]))
    /\ []((api_pc = "done" /\ TwoPageScenario) =>
            Len(manifest_file.urls) = 3 /\ api_requests = <<0, 5>>)

\* C14 witness: the two-page scenario has run to its end
C14_Witness ==
    /\ api_pc = "done"
    /\ TwoPageScenario
    /\ Len(manifest_file.urls) = 3
    /\ Len(api_requests) = 2

\* C15 (as claimed): fetch_all_digimon requests at most 100 listing pages
C15_AtMostCapPages == Len(api_requests) <= 100

C17_ReturnedUrlsCompliant ==
    (respect_robots /\ discovery.source # "none") =>
      \A i \in DOMAIN urls : can_fetch(robots_cache, robot_parser, urls[i])

\* the characters a sanitized name may hold
SafeChars == {"a", "b", "e", "u", "n", "m", "d", "_", ".", "-"}

\* C18 (as claimed): sanitize_filename is idempotent and its result is
\* non-empty, lowercase and made of filesystem-safe characters
C18_SanitizeIdempotent ==
    /\ \A k \in DOMAIN fs_out :
         /\ fs_out[k] # <<>>
         /\ \A j \in DOMAIN fs_out[k] : fs_out[k][j] \in SafeChars
    /\ Len(fs_out) = 2 => fs_out[2] = fs_out[1]

\* the markup regions of a page, the region removed from a file's page, and
\* the fields of the record a region feeds
Regions == {"name_jp", "name_en", "img", "info", "profile", "related"}

Without(file, region) == [file EXCEPT !.page[region] = EmptyPage[region]]

FieldsOf(region) ==
    CASE region = "name_jp" -> {"names_japanese"}
      [] region = "name_en" -> {"names_english"}
      [] region = "img" -> {"images_main"}
      [] region = "info" -> {"info", "special_moves"}
      [] region = "profile" -> {"profile_japanese"}
      [] OTHER -> {"related_digimon"}

\* C19: parse_html_file returns a record for every readable file and the
\* failure value otherwise; the record's identifier is the file name without
\* its suffix; and the same file without one markup region parses to the same
\* record except that the fields fed by that region are empty
C19_PartialMarkupTolerated ==
    p_pc = "parsed" =>
      /\ p_data.none <=> ~p_file.readable
      /\ ~p_data.none =>
           /\ p_data.directory_name \o <<"html">> = p_file.name
           /\ p_data.source_file = p_file.name
           /\ \A region \in Regions :
                LET partial == parse_html_file(Without(p_file, region))
                IN /\ ~partial.none
                   /\ partial.directory_name = p_data.directory_name
                   /\ \A field \in DOMAIN NoneData \ {"none", "directory_name"} :
                        partial[field] = IF field \in FieldsOf(region) THEN NoneData[field]
                                         ELSE p_data[field]

\* C19 witness: a page without the profile block, with names, an info field,
\* special moves and a related entry, was parsed
C19_Witness ==
    /\ p_pc = "parsed"
    /\ ~p_file.page.profile.present
    /\ ~p_data.none
    /\ p_data.profile_japanese = Absent
    /\ p_data.names_japanese = Some(<<"N">>)
    /\ p_data.info # <<>>
    /\ p_data.special_moves = <<<<"x">>, <<"x", " ", "x">>>>
    /\ p_data.related_digimon # <<>>
    /\ p_data.directory_name = <<"agumon", "x">>

\* the special-moves value of a page that holds nothing else
IsMovesPage == p_file.readable /\ p_file.page \in MovesPages

MovesValue == p_file.page.info[1].dd.text

\* a segment of the value as the claim wants it: trimmed, its leading bullet
\* removed
SegmentOf(segment) ==
    LET t == Strip(segment, Whitespace)
    IN IF t # <<>> /\ Head(t) = "bullet" THEN Strip(Tail(t), Whitespace) ELSE t

\* C20 (as claimed): the special moves extracted from a value made of segments
\* separated by line-break tags are the segments in order, trimmed, the
\* leading bullet removed, the empty ones discarded, and no element of the
\* list is empty or begins with a bullet
C20_MovesAreSegments ==
    (p_pc = "parsed" /\ IsMovesPage) =>
      /\ (\A k \in DOMAIN MovesValue : MovesValue[k] # "nl") =>
           LET segments == SplitOn(MovesValue, "<br>", <<>>)
               wanted == [k \in DOMAIN segments |-> SegmentOf(segments[k])]
               NonEmpty(m) == m # <<>>
           IN p_data.special_moves = SelectSeq(wanted, NonEmpty)
      /\ \A k \in DOMAIN p_data.special_moves :
           /\ p_data.special_moves[k] # <<>>
           /\ Head(p_data.special_moves[k]) # "bullet"

\* the eligible files of the directory, and the directories of C21: at least
\* one eligible file, each of them parsed and its record accepted by the disk
Eligible == {b_dir[i] : i \in {j \in 1..Len(b_dir) : ~StartsWithUnderscore(b_dir[j].name)}}

EveryFileParses ==
    /\ Eligible # {}
    /\ \A f \in Eligible : f.readable /\ StemOf(f.name) \notin b_unwritable

\* C21: when parse_all_files is run again over an unchanged raw-HTML directory
\* in which every file parses, every run leaves for each file the record that
\* parse_html_file derives from that file alone, so the records of a later run
\* equal those of the first, and every run returns a summary with
\* successful = total and failed = 0.
C21_RerunSameRecords ==
    EveryFileParses =>
        \A k \in 1..Len(b_history) :
            LET run == b_history[k]
            IN /\ DOMAIN run.records = {StemOf(f.name) : f \in Eligible}
               /\ \A f \in Eligible : run.records[StemOf(f.name)] = parse_html_file(f)
               /\ run.records = b_history[1].records
               /\ run.summary.total = Cardinality(Eligible)
               /\ run.summary.successful = run.summary.total
               /\ run.summary.failed = 0
               /\ run.summary.failed_files = <<>>

\* a second run has returned over a directory of two parsable files
C21_Witness ==
    /\ EveryFileParses
    /\ Cardinality(Eligible) = 2
    /\ Len(b_history) = 2
    /\ b_pc = "returned"
    /\ \E f \in Eligible : f.page # EmptyPage

\* C22: every run of parse_all_files, a run over a directory without eligible
\* file included, leaves _parsing_summary.json holding the summary it returns,
\* and that summary has the fields total, successful, failed, failed_files and
\* output_directory, so main() never fails to find 'successful'.
C22_SummaryAlwaysPersisted ==
    /\ \A k \in 1..Len(b_history) :
          LET run == b_history[k]
          IN /\ run.summary_file.exists
             /\ run.summary_file = [exists |-> TRUE, content |-> run.summary]
             /\ DOMAIN run.summary =
                    {"total", "successful", "failed", "failed_files", "output_directory"}
    /\ b_exit # "exit_1_exception"

\* str(e) of the exception raised while a file is read and parsed, which
\* parse_html_file logs
ParseError == "UnicodeDecodeError"

\* the entries of the failed-file list of a run for one file
FailedEntries(run, file_name) ==
    {i \in 1..Len(run.summary.failed_files) : run.summary.failed_files[i][1] = file_name}

\* every eligible file was attempted once, fails at most once and is counted
AttemptedOnce ==
    b_pc \in {"returned", "exited"} /\ Eligible # {} =>
        LET run == b_history[Len(b_history)]
        IN /\ Len(b_attempted) = Cardinality(Eligible)
           /\ {b_attempted[i] : i \in 1..Len(b_attempted)} = {f.name : f \in Eligible}
           /\ run.summary.successful + run.summary.failed = run.summary.total
           /\ run.summary.failed = Len(run.summary.failed_files)
           /\ \A f \in Eligible : Cardinality(FailedEntries(run, f.name)) <= 1

\* C26: when parsing a file raises, the run that has returned lists the file
\* once in failed_files with the message of that exception, every eligible
\* file was attempted once and successful + failed = total.
C26_FailureKeepsMessage ==
    /\ AttemptedOnce
    /\ b_pc \in {"returned", "exited"} /\ Eligible # {} =>
          LET run == b_history[Len(b_history)]
          IN \A f \in Eligible :
                ~f.readable =>
                    \E i \in FailedEntries(run, f.name) :
                        run.summary.failed_files[i] = <<f.name, ParseError>>

\* the output file of a name is marked translation_complete in a directory
MarkedComplete(out, name) ==
    LET o == OutputOf(out, name) IN o.exists /\ o.loadable /\ o.translation_complete

\* the file names for which translate_text was called in a run
TranslatedIn(run) == {run.log[i].file : i \in 1..Len(run.log)}

\* C23: in every finished run of process_all_digimon, a record whose output
\* file was marked translation_complete when the run began got no translation
\* call and its output file is as the run found it; and when the first run was
\* successful for all records, every later run over the same directories makes
\* no translation call, changes no file and reports skipped = total.
C23_CompleteRecordsSkipped ==
    \A k \in 1..Len(t_history) :
        LET run == t_history[k]
            first == t_history[1]
            files == EligibleJson(t_input)
        IN /\ \A i \in 1..Len(files) :
                 MarkedComplete(run.before, files[i].name) =>
                     /\ files[i].name \notin TranslatedIn(run)
                     /\ OutputOf(run.after, files[i].name) = OutputOf(run.before, files[i].name)
           /\ (k > 1 /\ first.stats.successful = first.stats.total) =>
                 /\ run.log = <<>>
                 /\ run.after = run.before
                 /\ run.stats = [total |-> Len(files), successful |-> 0, failed |-> 0,
                                 skipped |-> Len(files)]

\* a second run has returned after a first run that translated two records
C23_Witness ==
    /\ Len(t_history) = 2
    /\ t_pc = "returned"
    /\ t_history[1].stats.successful = 2
    /\ t_history[1].stats.total = 2
    /\ Len(t_history[1].log) > 2
    /\ t_history[2].stats.skipped = 2

\* C27: in every finished run of process_all_digimon, a record for which a
\* call of translator.translate failed is not left marked translation_complete,
\* and the untranslated text such a call returned is not handed out again for
\* the same text by a later call of the run.
C27_CompleteOnlyIfTranslated ==
    \A k \in 1..Len(t_history) :
        LET run == t_history[k]
        IN /\ \A i \in 1..Len(run.log) :
                 run.log[i].how = "api_fail" => ~MarkedComplete(run.after, run.log[i].file)
           /\ \A i, j \in 1..Len(run.log) :
                 (i < j /\ run.log[i].how = "api_fail" /\ run.log[j].text = run.log[i].text)
                     => run.log[j].how # "lru"

\* C25: when a request of fetch_all_digimon to the listing endpoint has failed,
\* on the first page or on a later one, the list returned is empty and the
\* manifest _all_digimon_urls.json holds no URL of a partially fetched listing.
C25_FailureYieldsEmptySet ==
    (/\ api_pc = "done"
     /\ api_requests # <<>>
     /\ endpoint[api_requests[Len(api_requests)]].kind = "fail")
        => /\ all_digimon = <<>>
           /\ manifest_file.urls = <<>>

\* C29: the file name save_html derives from a URL, whatever its query string
\* or path holds, is the slug followed by ".html" and never begins with "_",
\* so it is not one of the reserved files and the parser's filter keeps it.
C29_FileNameNotReserved ==
    fs_file.saved =>
        /\ Len(fs_file.name) >= 2
        /\ fs_file.name[Len(fs_file.name)] = ".html"
        /\ Head(fs_file.name) # "_"
        /\ \A k \in 1..(Len(fs_file.name) - 1) : fs_file.name[k] \in SafeChars

\* save_html has named the file of a URL whose parameter value begins with "_"
C29_Witness ==
    /\ fs_file.saved
    /\ fs_file.kind = "param"
    /\ Len(fs_name) >= 2
    /\ Head(fs_name) = "_"
    /\ fs_file.name # Unnamed \o <<".html">>

\* s can be obtained from t by dropping elements
RECURSIVE IsSubsequence(_, _)
IsSubsequence(s, t) ==
    IF s = <<>> THEN TRUE
    ELSE IF t = <<>> THEN FALSE
    ELSE IF Head(s) = Head(t) THEN IsSubsequence(Tail(s), Tail(t))
    ELSE IsSubsequence(s, Tail(t))

\* the positions in scraped_urls of the targets saved under a file name
SavedAs(name) == {k \in 1..Len(scraped_urls) : TargetFile[scraped_urls[k]] = name}

\* C28: in scrape_all_async, for every order in which the fetches complete, the
\* pages are saved in the order of the URL list: the saved targets follow that
\* order, every file holds the page of the last saved target of its slug,
\* which is the one latest in the list, and every saved target is counted as
\* a success.
C28_SavedInListOrder ==
    (mode = "async" /\ pc \in {"saving", "done", "exit_0", "exit_1"}) =>
        /\ IsSubsequence(scraped_urls, urls)
        /\ DOMAIN disk = {TargetFile[scraped_urls[k]] : k \in 1..Len(scraped_urls)}
        /\ \A name \in DOMAIN disk :
              \E last \in SavedAs(name) :
                  /\ \A k \in SavedAs(name) : k <= last
                  /\ disk[name] = scraped_urls[last]
        /\ (pc # "saving" /\ urls # <<>>) => summary.success = Len(scraped_urls)

\* a concurrent run saved two targets of the same slug, the later one last
C28_Witness ==
    /\ mode = "async"
    /\ pc = "done"
    /\ concurrent_requests = 2
    /\ urls = <<(<<1, 2>>), (<<1>>)>>
    /\ scraped_urls = urls
    /\ TargetFile[<<1, 2>>] = TargetFile[<<1>>]
    /\ disk[TargetFile[<<1>>]] = <<1>>
    /\ summary.success = 2

\* ------------------------------------------- the delay between two requests

\* values of scraping.delay that are explored: none, the default, a long one
ConfigDelays == {0, ConfigDelay, 3}

\* a scraper built with robots checking under any of the configured delays
InitDelayed ==
    /\ \E configured \in ConfigDelays : ScraperConfigured(configured)
    /\ respect_robots
    /\ StagesIdle

NextDelay ==
    \/ ConstructWithRobots
    \/ DiscoverUpTo(MaxShortList)
    \/ SeqCheck
    \/ SeqRequest
    \/ SeqCatch
    \/ SeqProcess
    \/ SeqSummary
    \/ \E i \in 1..MaxUrls : Admit(i)
    \/ \E i \in 1..MaxUrls : FetchResolve(i)
    \/ \E i \in 1..MaxUrls : DelayElapsed(i)
    \/ GatherDone
    \/ AsyncSave
    \/ AsyncSummary
    \/ MainExit

SpecDelay == InitDelayed /\ [][NextDelay]_vars

\* the targets whose fetch is over: requested, and in the concurrent mode
\* returned by fetch_with_delay
Fetched ==
    {i \in DOMAIN requested :
        requested[i] /\ (mode = "async" => task[i] = "done")}

\* after construction the delay is at least the configured delay and at least
\* the delay get_crawl_delay reports, and every fetched target waited for it
DelayAsReported ==
    pc # "new" =>
        /\ delay >= config_delay
        /\ get_crawl_delay(robots_cache) # NoDelay
              => delay >= get_crawl_delay(robots_cache)
        /\ \A i \in Fetched : slept[i] = delay

\* no step after the construction changes the delay
DelayNeverChanges == [][pc # "new" => delay' = delay]_vars

\* C30 (as claimed): once a scraper with robots checking is constructed its
\* delay is at least the configured delay and at least the crawl delay of the
\* policy, which is the 1.0 default whenever robots.txt could not be loaded, and
\* in both modes the wait of every fetched target is that delay
C30_DelayRespected ==
    /\ DelayAsReported
    /\ (pc # "new" /\ LoadFailed) => delay >= DefaultCrawlDelay

\* ------------------------------------- a second run on the same scraper object

\* scrape_all or scrape_all_async is called again on the scraper whose run has
\* returned: the caller keeps the summary it got, the scraper keeps its lists,
\* its delay, its policy and the files it wrote
ScrapeAgain ==
    /\ pc = "done"
    /\ Len(earlier) < MaxRuns - 1
    /\ earlier' = Append(earlier,
                         ReturnedSummary(summary, urls # <<>>, scraped_urls, failed_urls))
    /\ \E m \in {"sync", "async"} : mode' = m
    /\ pc' = "ready"
    /\ UNCHANGED <<stageVars, config_delay, disk, discovery, respect_robots,
                   concurrent_requests, delay, robotVars, urls, listVars, outVars,
                   requested, gave_up_after, seqVars, slept, asyncVars>>

\* a scraper configured without robots checking
InitRerun == Init /\ ~respect_robots

NextRerun ==
    \/ ConstructPlain
    \/ DiscoverUpTo(MaxShortList)
    \/ SeqCheck
    \/ SeqRequest
    \/ SeqCatch
    \/ SeqProcess
    \/ SeqSummary
    \/ \E i \in 1..MaxUrls : Admit(i)
    \/ \E i \in 1..MaxUrls : FetchResolve(i)
    \/ \E i \in 1..MaxUrls : DelayElapsed(i)
    \/ GatherDone
    \/ AsyncSave
    \/ AsyncSummary
    \/ ScrapeAgain

SpecRerun == InitRerun /\ [][NextRerun]_vars

\* the entries the two lists held when the run in progress began
CarriedOver ==
    IF earlier = <<>> \/ mode = "async"
    THEN [success |-> 0, failed |-> 0]
    ELSE [success |-> earlier[Len(earlier)].success_then,
          failed |-> earlier[Len(earlier)].failed_then]

\* the outcomes of the run that has just returned, and of no run before it
OwnOutcomes ==
    IF urls = <<>>
    THEN [success |-> 0, failed |-> 0, failed_urls |-> <<>>]
    ELSE [success |-> Len(scraped_urls) - CarriedOver.success,
          failed |-> Len(failed_urls) - CarriedOver.failed,
          failed_urls |-> SubSeq(failed_urls, CarriedOver.failed + 1, Len(failed_urls))]

\* C24 (as claimed): a summary a run returned reads the same for ever, whatever
\* is run on the scraper afterwards, and the summary of a later run counts the
\* outcomes of that run only
C24_SummaryNeverChanges ==
    /\ \A k \in DOMAIN earlier :
          ReadNow(earlier[k], failed_urls) = earlier[k].returned
    /\ pc = "done" =>
          /\ summary.success = OwnOutcomes.success
          /\ summary.failed = OwnOutcomes.failed
          /\ summary.failed_urls = OwnOutcomes.failed_urls

\* a first run's summary is its own outcomes, and a concurrent run after any
\* run returns a summary of its own outcomes
FirstOrConcurrentRunCountsOwn ==
    (pc = "done" /\ (earlier = <<>> \/ mode = "async")) =>
        /\ summary.success = OwnOutcomes.success
        /\ summary.failed = OwnOutcomes.failed
        /\ summary.failed_urls = OwnOutcomes.failed_urls

====
